---------------------------- MODULE Spec2Model ----------------------------
(***************************************************************************)
(* A model of mdgachasim's goal-acquisition simulator                      *)
(* (src/mdgachasim/simulator.py, function simulation).                     *)
(*                                                                         *)
(* One behaviour of the model is one call of simulation(): the initial     *)
(* state is the state reached at line 225 (the set-up of lines 170-225 has *)
(* run), every step is one iteration of the loop of line 250, and the      *)
(* state pc = "done" is the return of line 391.  The pack draw engine      *)
(* (mdgachasim/pack.py) is not part of the sources; a ten-draw is modelled *)
(* from its contract as a choice among the results the contract allows.    *)
(***************************************************************************)
EXTENDS Integers, Sequences, FiniteSets, TLC

(***************************************************************************)
(* Bounds of the model.                                                    *)
(***************************************************************************)
\* longest goal list over the core cards
MaxGoals == 2
\* catalog cards a ten-draw lands on (the other draws land on cards the
\* catalog does not hold and are paid out as base materials)
MaxTracked == 1
\* a draw that would raise a ledger entry above MaxMat is not explored
MaxMat == 30
\* optional arguments of simulation() given a non-default value in one call:
\* any fewer than MaxOptions of them, and MaxOptions of them when they are
\* one of the groups Together
MaxOptions == 2
\* the same, and the longest goal list, of the first of two calls compared,
\* and the most the two come to together where the second call differs in
\* core_only or in its goal list
MaxPairOptions == 1
MaxPairGoals == 2
MaxPairSize == 2
\* secret packs holding exactly one goal card each in the wide goal list
NumFiller == 50

(***************************************************************************)
(* card.py: Rarity and Card.  A card is identified by its name; its        *)
(* rarity, staple flag and gift count are catalog data.                    *)
(***************************************************************************)
Rarity == {"Common", "Rare", "Super", "Ultra"}

CoreCards == {"Spi", "Acc", "Gaz", "Cir"}

\* the cards of the wide catalog: FillerNames[k] is the one card of the
\* k-th filler secret pack (that pack carries the name of its card)
FillerNames ==
    << "F01", "F02", "F03", "F04", "F05", "F06", "F07", "F08", "F09", "F10", "F11", "F12", "F13",
       "F14", "F15", "F16", "F17", "F18", "F19", "F20", "F21", "F22", "F23", "F24", "F25", "F26",
       "F27", "F28", "F29", "F30", "F31", "F32", "F33", "F34", "F35", "F36", "F37", "F38", "F39",
       "F40", "F41", "F42", "F43", "F44", "F45", "F46", "F47", "F48", "F49", "F50", "F51", "F52" >>

FillerCards == {FillerNames[k] : k \in 1..NumFiller}

Cards == CoreCards \cup FillerCards

rarity(c) ==
    CASE c = "Acc" -> "Ultra"
      [] c = "Spi" -> "Super"
      [] c = "Gaz" -> "Super"
      [] c = "Cir" -> "Rare"
      [] OTHER -> "Super"

staple(c) == c = "Gaz"

gift(c) == IF c = "Spi" THEN 1 ELSE 0

(***************************************************************************)
(* data.py: the catalog.  Master is db.master_pack; S and S2 are secret    *)
(* packs, N is a pack with is_normal_pack set.                             *)
(***************************************************************************)
Master == "Master"

CorePacks == {"S", "S2", "N"}

Packs == CorePacks \cup FillerCards

is_normal_pack(p) == p \in {Master, "N"}

cardlist(p) ==
    CASE p = Master -> CoreCards
      [] p = "S" -> {"Acc", "Gaz"}
      [] p = "S2" -> {"Cir"}
      [] p = "N" -> {"Gaz", "Spi"}
      [] OTHER -> {p}

\* Pack.totals: the number of cards of a rarity the pack is taken to hold;
\* a rarity without an entry is read with the default of line 246
totals(p) ==
    CASE p = "S" -> [r \in {"Ultra", "Super"} |-> IF r = "Ultra" THEN 4 ELSE 8]
      [] p = "S2" -> [r \in {"Rare"} |-> 10]
      [] p = "N" -> [r \in {"Super"} |-> 8]
      [] OTHER -> [r \in {} |-> 0]

\* db.sources: the packs (the master pack left out) whose cardlist holds
\* the card, as data.py lines 80-85 build it from the cardlists above
sources(c) ==
    CASE c = "Acc" -> {"S"}
      [] c = "Gaz" -> {"S", "N"}
      [] c = "Spi" -> {"N"}
      [] c = "Cir" -> {"S2"}
      [] OTHER -> {c}

\* bundle.py: a bundle is the record of its four fields
BAcc == [name |-> "BAcc", cost |-> 750, featured_pack |-> Master,
         featured_cards |-> <<"Acc">>]

BDuo == [name |-> "BDuo", cost |-> 500, featured_pack |-> "S",
         featured_cards |-> <<"Gaz", "Spi">>]

Bundles == {BAcc, BDuo}

(***************************************************************************)
(* Program constants of simulator.py.                                      *)
(***************************************************************************)
\* for _ in range(50)
Iterations == 50
\* the price of a ten-draw
PullCost == 1000
\* materials to craft one card
CraftCost == 30
\* net materials of crafting and dismantling any Super card
GenericCraftCost == 20
\* materials credited for a bundle card that is no goal
BundleDismantle == 10

(***************************************************************************)
(* Python list operations.                                                 *)
(***************************************************************************)
Range(s) == {s[k] : k \in 1..Len(s)}

\* list.count
Count(s, x) == Cardinality({k \in 1..Len(s) : s[k] = x})

\* list.remove: the first occurrence goes, the order of the rest is kept
Remove(s, x) ==
    LET k == CHOOSE j \in 1..Len(s) : s[j] = x /\ \A h \in 1..(j - 1) : s[h] # x
    IN  SubSeq(s, 1, k - 1) \o SubSeq(s, k + 1, Len(s))

Min(a, b) == IF a <= b THEN a ELSE b

\* the materials dict with every rarity present (lines 171-174)
Ledger(m) == [r \in Rarity |-> IF r \in DOMAIN m THEN m[r] ELSE 0]

(***************************************************************************)
(* cards_per_source is a dict of Pack -> list of Card; a dict keeps its    *)
(* keys in insertion order, so it is the sequence of its items.            *)
(***************************************************************************)
Keys(per_source) == {per_source[k].pack : k \in 1..Len(per_source)}

Item(per_source, p) ==
    per_source[CHOOSE k \in 1..Len(per_source) : per_source[k].pack = p]

\* the index pairs <<k, j>>, k in 1..n and j in 1..m, in the order in which
\* a loop over k with an inner loop over j visits them
Pairs(n, m) == [x \in 1..(n * m) |-> <<((x - 1) \div m) + 1, ((x - 1) % m) + 1>>]

\* the iteration order of the set db.sources[c]: a set of packs is walked
\* in an order the caller cannot choose; `order` is that order
source_list(c, order) ==
    IF c \in CoreCards THEN SelectSeq(order, LAMBDA p : p \in sources(c)) ELSE <<c>>

\* mutation: normal packs are filed always, the others when unlocked
FiledNormal(g, packs_unlocked, order) ==
    SelectSeq(source_list(g, order),
              LAMBDA source : is_normal_pack(source) \/ source \in packs_unlocked)

\* line 82, over the sources of one goal in their iteration order
Filed(g, packs_unlocked, order) ==
    SelectSeq(source_list(g, order),
              LAMBDA source : ~is_normal_pack(source) \/ source \in packs_unlocked)

\* lines 75-84.  sources.setdefault(source, []).append(goal) is run for the
\* goals in list order and, for one goal, for its filed sources in their
\* order: a key enters the dict at the first pair <<goal, source>> that
\* names it, and its list holds, in goal order, every goal filed under it
_find_goal_sources(goals, packs_unlocked, order) ==
    LET filed(k) == Filed(goals[k], packs_unlocked, order)
        firsts == SelectSeq(Pairs(Len(goals), Cardinality(CorePacks)),
                            LAMBDA kj :
                                /\ kj[2] <= Len(filed(kj[1]))
                                /\ \A h \in 1..(kj[1] - 1) :
                                       filed(kj[1])[kj[2]] \notin Range(filed(h)))
    IN  [n \in 1..Len(firsts) |->
            LET p == filed(firsts[n][1])[firsts[n][2]]
            IN  [pack |-> p,
                 cards |-> SelectSeq(goals,
                                     LAMBDA g : p \in Range(Filed(g, packs_unlocked, order)))]]

(***************************************************************************)
(* _remove_card_from_goals, for the main goals (per_source given) and for  *)
(* the sub goals (per_source is None).                                     *)
(***************************************************************************)
\* mutation: the card leaves only the first list that holds it
RemoveFromFirstSource(per_source, card) ==
    IF per_source = <<>> THEN per_source
    ELSE LET holds(k) == card \in Range(per_source[k].cards)
             removed == [k \in 1..Len(per_source) |->
                            IF holds(k) /\ \A j \in 1..(k - 1) : ~holds(j)
                            THEN [pack |-> per_source[k].pack,
                                  cards |-> Remove(per_source[k].cards, card)]
                            ELSE per_source[k]]
         IN  SelectSeq(removed, LAMBDA it : it.cards # <<>>)

\* lines 114-124: the card leaves every list that holds it, emptied keys go
RemoveFromSources(per_source, card) ==
    IF per_source = <<>> THEN per_source
    ELSE LET removed == [k \in 1..Len(per_source) |->
                            IF card \in Range(per_source[k].cards)
                            THEN [pack |-> per_source[k].pack,
                                  cards |-> Remove(per_source[k].cards, card)]
                            ELSE per_source[k]]
             do_cleanup == \E k \in 1..Len(per_source) :
                               /\ card \in Range(per_source[k].cards)
                               /\ removed[k].cards = <<>>
         IN  IF do_cleanup
             THEN SelectSeq(removed, LAMBDA it : it.cards # <<>>)
             ELSE removed

\* the returned flag of _remove_card_from_goals
Removes(card, goals) == card \in Range(goals)

\* the goals list after _remove_card_from_goals
GoalsWithout(card, goals) == IF Removes(card, goals) THEN Remove(goals, card) ELSE goals

\* the per_source dict after _remove_card_from_goals
SourcesWithout(card, goals, per_source) ==
    IF Removes(card, goals) THEN RemoveFromSources(per_source, card) ELSE per_source

(***************************************************************************)
(* The set-up of simulation(), lines 170-225.  An argument record `a`      *)
(* holds the arguments of one call: None and the empty collection are the  *)
(* same value where the code treats them alike (materials, packs_unlocked, *)
(* sub_goals, bundles, rarity_weight); gifts and staples carry a flag that *)
(* tells None from a given collection; log tells whether a logger is       *)
(* given.  bundles is the collection in its iteration order.               *)
(***************************************************************************)
\* line 180: goal.gift if gifts is None else gifts.count(goal)
Gifted(goal, a) == IF a.gifts_given THEN Count(a.gifts, goal) ELSE gift(goal)

\* mutation: at most one copy of a card is taken as a gift
gift_countOnce(goals, goal, a) == Min(Min(Count(goals, goal), Gifted(goal, a)), 1)

\* lines 179-181
gift_count(goals, goal, a) == Min(Count(goals, goal), Gifted(goal, a))

\* lines 178-183: for every card of the list, its first gift_count copies
\* are removed (list.remove takes the first copy; the copies of one card
\* do not change the count of another): the k-th entry stays when more
\* copies of its card precede it than are gifted
RemoveGifts(goals, a) ==
    LET stays(k) == Count(SubSeq(goals, 1, k - 1), goals[k]) >= gift_count(goals, goals[k], a)
        kept == SelectSeq([k \in 1..Len(goals) |-> k], stays)
    IN  [n \in 1..Len(kept) |-> goals[kept[n]]]

\* mutation: a flagged card is a staple beside a given staple set
IsStapleEither(goal, a) ==
    staple(goal) \/ (a.staples_given /\ goal \in a.staples)

\* lines 192-194
IsStaple(goal, a) ==
    \/ ~a.staples_given /\ staple(goal)
    \/ a.staples_given /\ goal \in a.staples

\* lines 190-196: every copy of a staple goes
RemoveStaples(goals, a) ==
    IF a.core_only THEN SelectSeq(goals, LAMBDA g : ~IsStaple(g, a)) ELSE goals

\* the goal list the loop starts with
SetupGoals(a) == RemoveStaples(RemoveGifts(a.goals, a), a)

\* mutation: a bundle is planned for every goal it features
PlanBundlesRepeated(goals, bundles) ==
    LET ps == Pairs(Len(goals), Len(bundles))
        hits == SelectSeq(ps, LAMBDA kj : goals[kj[1]] \in Range(bundles[kj[2]].featured_cards))
    IN  [n \in 1..Len(hits) |-> bundles[hits[n][2]]]

\* lines 211-216: the loop over the goals with the inner loop over the
\* bundles appends a bundle at the first pair <<goal, bundle>> whose bundle
\* features the goal
PlanBundles(goals, bundles) ==
    LET hit(kj) == goals[kj[1]] \in Range(bundles[kj[2]].featured_cards)
        ps == Pairs(Len(goals), Len(bundles))
        firsts == SelectSeq([x \in 1..Len(ps) |-> x],
                            LAMBDA x :
                                /\ hit(ps[x])
                                /\ \A y \in 1..(x - 1) :
                                       ~(hit(ps[y]) /\ bundles[ps[y][2]] = bundles[ps[x][2]]))
    IN  [n \in 1..Len(firsts) |-> bundles[ps[firsts[n]][2]]]

\* the local state at line 225
Setup(a, order) ==
    LET goals == SetupGoals(a)
    IN  [goals |-> goals,
         sub_goals |-> a.sub_goals,
         materials |-> Ledger(a.materials),
         packs_unlocked |-> a.packs_unlocked,
         cards_per_source |-> _find_goal_sources(goals, a.packs_unlocked, order),
         per_pack_pity |-> [p \in {} |-> 0],
         must_buy_bundles |-> PlanBundles(goals, a.bundles),
         cost |-> 0,
         i |-> 0,
         pc |-> "loop",
         exit |-> "none"]

(***************************************************************************)
(* expected_return, lines 227-248, computes with Python floats, which are  *)
(* IEEE 754 doubles.  A non-negative double is the record [h, l, e]: its   *)
(* 53-bit significand is h * 2^29 + l, with the highest one-bit at         *)
(* position 52, and its value is the significand times 2^e; zero is        *)
(* [h |-> 0, l |-> 0, e |-> 0].  Every operation rounds its exact result   *)
(* to the nearest double, ties to even.  The exact results of a product    *)
(* and of a quotient are held as the set of the positions of their         *)
(* one-bits, the exact result of a sum as a number of two parts.           *)
(***************************************************************************)
Top(S) == CHOOSE x \in S : \A y \in S : y <= x

Shift(S, n) == {b + n : b \in S}

\* in the sum of the numbers of bits A and B a carry reaches position p: it
\* starts at a lower position where both have a one and passes positions
\* where one of them has a one
Carry(A, B, p) ==
    \E j \in A \cap B : j < p /\ \A k \in (j + 1)..(p - 1) : k \in A \cup B

\* the bits of the sum of the numbers of bits A and B
AddBits(A, B) ==
    {p \in A \cup B \cup Shift(A \cup B, 1) : ((p \in A) # (p \in B)) # Carry(A, B, p)}

\* the bits of w times the number of bits S, w a natural number
RECURSIVE MulBits(_, _)
MulBits(S, w) ==
    IF w = 0 THEN {}
    ELSE AddBits(IF w % 2 = 1 THEN S ELSE {}, Shift(MulBits(S, w \div 2), 1))

Bit(S, p) == IF p \in S THEN 1 ELSE 0

\* the number whose bits are the positions lo..hi of S, hi - lo below 31,
\* four bits at a time
RECURSIVE Number(_, _, _)
Number(S, lo, hi) ==
    IF hi < lo THEN 0
    ELSE Bit(S, lo) + 2 * Bit(S \cap lo..hi, lo + 1) + 4 * Bit(S \cap lo..hi, lo + 2)
             + 8 * Bit(S \cap lo..hi, lo + 3) + 16 * Number(S, lo + 4, hi)

\* the digit h, in base 4096, of the number of bits S
Digit(S, h) == Number(S, 12 * h, 12 * h + 11)

\* the bits of the digit q, in base 4096, at place h
DigitBits(q, h) == {12 * h + c : c \in {b \in 0..11 : (q \div (2 ^ b)) % 2 = 1}}

\* the quotient and remainder of the number of bits S by the natural number
\* d: long division, one digit at a time from digit h down; r is the
\* remainder of the digits above h followed by digit h, Q the quotient bits
\* of the digits above h
RECURSIVE DivBits(_, _, _, _, _)
DivBits(S, d, h, r, Q) ==
    IF h = 0 THEN [q |-> Q \cup DigitBits(r \div d, 0), rem |-> r % d]
    ELSE DivBits(S, d, h - 1, 4096 * (r % d) + Digit(S, h - 1), Q \cup DigitBits(r \div d, h))

\* the quotient and remainder by d of a number of bits S below 2^72
Divide(S, d) == DivBits(S, d, 5, Digit(S, 5), {})

\* the double of significand bits S, a set of positions up to 52, and
\* exponent e
Packed(S, e) == [h |-> Number(S, 29, 52), l |-> Number(S, 0, 28), e |-> e]

\* the significand bits of a double
Bits(x) ==
    {b \in 0..28 : (x.l \div (2 ^ b)) % 2 = 1}
        \cup {29 + b : b \in {c \in 0..23 : (x.h \div (2 ^ c)) % 2 = 1}}

\* the bits of S from position k up, moved down by k places
Kept(S, k) == {b - k : b \in {x \in S : x >= k}}

\* the bits of S below position k amount to more than half a unit of
\* position k, or to half a unit with bit k set (ties go to even); sticky
\* tells that the number lies above S by less than one unit
RoundsUp(S, k, sticky) ==
    k > 0 /\ (k - 1) \in S /\ (sticky \/ k \in S \/ \E b \in S : b < k - 1)

\* the 53 bits, from position k up, of the number of bits S, rounded
Nearest(S, k, sticky) ==
    IF RoundsUp(S, k, sticky) THEN AddBits(Kept(S, k), {0}) ELSE Kept(S, k)

\* the double of bits R and exponent e; R is 2^53 when the rounding carried
Carried(R, e) == Packed(IF 53 \in R THEN {52} ELSE R, IF 53 \in R THEN e + 1 ELSE e)

\* the double nearest to the number of bits S in units of 2^e, top being the
\* highest position in S
Round(S, top, e, sticky) == Carried(Nearest(S, top - 52, sticky), e + top - 52)

Double(S, e, sticky) ==
    IF S = {} THEN [h |-> 0, l |-> 0, e |-> 0] ELSE Round(S, Top(S), e, sticky)

\* float(n) of a natural number n below 2^31
FromInt(n) == Double({b \in 0..30 : (n \div (2 ^ b)) % 2 = 1}, 0, FALSE)

\* x * w, w a natural number
FMul(x, w) == IF w = 1 THEN x ELSE Double(MulBits(Bits(x), w), x.e, FALSE)

\* the double nearest to a quotient dv with remainder, in units of 2^e
Quotient(dv, e) == Double(dv.q, e, dv.rem # 0)

\* x / d, d a natural number from 1 to 2^12
FDiv(x, d) == Quotient(Divide(Shift(Bits(x), 16), d), x.e - 16)

\* eight times the significand of a double, a number of 56 bits, as the
\* record [a, b] of the number a * 2^29 + b
Wide(x) == [a |-> 8 * x.h + x.l \div (2 ^ 26), b |-> 8 * (x.l % (2 ^ 26))]

\* the number w shifted right by s bits, and whether a one-bit was lost
Cut(w, s) ==
    IF s = 0 THEN [a |-> w.a, b |-> w.b, lost |-> FALSE]
    ELSE IF s <= 29
    THEN [a |-> w.a \div (2 ^ s),
          b |-> (w.a % (2 ^ s)) * (2 ^ (29 - s)) + w.b \div (2 ^ s),
          lost |-> w.b % (2 ^ s) # 0]
    ELSE IF s <= 57
    THEN [a |-> 0,
          b |-> w.a \div (2 ^ (s - 29)),
          lost |-> w.a % (2 ^ (s - 29)) # 0 \/ w.b # 0]
    ELSE [a |-> 0, b |-> 0, lost |-> w.a # 0 \/ w.b # 0]

\* the lowest bit is set when a one-bit was lost
Sticky(cut) ==
    [a |-> cut.a, b |-> IF cut.lost /\ cut.b % 2 = 0 THEN cut.b + 1 ELSE cut.b]

ShiftRight(w, s) == Sticky(Cut(w, s))

\* the double of significand h * 2^29 + l and exponent e, rounded by the
\* three bits `low` below its last place
Rounded(h, l, low, e) ==
    IF ~(low > 4 \/ (low = 4 /\ l % 2 = 1)) THEN [h |-> h, l |-> l, e |-> e]
    ELSE IF l + 1 < 2 ^ 29 THEN [h |-> h, l |-> l + 1, e |-> e]
    ELSE IF h + 1 < 2 ^ 24 THEN [h |-> h + 1, l |-> 0, e |-> e]
    ELSE [h |-> 2 ^ 23, l |-> 0, e |-> e + 1]

\* the double nearest to v * 2^(e - 3), v a number of 56 bits
Split(v, e) == Rounded(v.a \div 8, (v.a % 8) * (2 ^ 26) + v.b \div 8, v.b % 8, e)

\* the double nearest to w * 2^e, w a number of 56 or 57 bits whose lowest
\* bit stands for all that lies below it
RoundWide(w, e) ==
    Split(IF w.a >= 2 ^ 27 THEN ShiftRight(w, 1) ELSE w,
          IF w.a >= 2 ^ 27 THEN e + 4 ELSE e + 3)

\* the double nearest to (X + Y) * 2^e
Sum(X, Y, e) ==
    RoundWide([a |-> X.a + Y.a + (X.b + Y.b) \div (2 ^ 29), b |-> (X.b + Y.b) % (2 ^ 29)], e)

\* big + small, the exponent of big not below that of small: small is
\* shifted to the exponent of big, three bits being kept below the last
\* place
Aligned(big, small) ==
    Sum(Wide(big), ShiftRight(Wide(small), big.e - small.e), big.e - 3)

\* x + y
FAdd(x, y) ==
    IF x.h = 0 THEN y
    ELSE IF y.h = 0 THEN x
    ELSE Aligned(IF x.e >= y.e THEN x ELSE y, IF x.e >= y.e THEN y ELSE x)

\* x < y
FLess(x, y) ==
    IF x.h = 0 THEN y.h # 0
    ELSE IF y.h = 0 THEN FALSE
    ELSE IF x.e # y.e THEN x.e < y.e
    ELSE x.h < y.h \/ (x.h = y.h /\ x.l < y.l)

\* the start value 0 of sum(...)
Zero == FromInt(0)

\* lines 229-238: the literals 0.025 and 0.075 and the quotients 0.35 / 100
\* and 0.55 / 1000; a literal is the double nearest to its decimal value,
\* here a quotient of two integers, and a division by one changes nothing
Decimal ==
    [Ultra |-> <<25, 1000, 1>>, Super |-> <<75, 1000, 1>>,
     Rare |-> <<35, 100, 100>>, Common |-> <<55, 100, 1000>>]

Literal == [r \in DOMAIN Decimal |-> FDiv(FromInt(Decimal[r][1]), Decimal[r][2])]

rarity_prob == [r \in DOMAIN Decimal |-> FDiv(Literal[r], Decimal[r][3])]

\* rarity_weight.get(r, 1)
Weight(rarity_weight, r) == IF r \in DOMAIN rarity_weight THEN rarity_weight[r] ELSE 1

\* source_pack.totals.get(r, 4)
Total(p, r) == IF r \in DOMAIN totals(p) THEN totals(p)[r] ELSE 4

\* lines 241-246: rarity_prob[r] * weight / total, tabulated for every weight
\* and total of the catalog and the calls
Terms ==
    [r \in Rarity, w \in 0..1, t \in {4, 8, 10} |-> FDiv(FMul(rarity_prob[r], w), t)]

\* sum(...) of lines 240-248: the terms are added one by one, in the order
\* of the list, to the running total `acc`, each addition rounding its
\* result (the sum() of Python 3.11 and earlier)
RECURSIVE SumReturn(_, _, _, _)
SumReturn(acc, cards, p, rarity_weight) ==
    IF cards = <<>> THEN acc
    ELSE SumReturn(FAdd(acc, Terms[rarity(Head(cards)),
                                   Weight(rarity_weight, rarity(Head(cards))),
                                   Total(p, rarity(Head(cards)))]),
                   Tail(cards), p, rarity_weight)

expected_return(per_source, p, rarity_weight) ==
    SumReturn(Zero, Item(per_source, p).cards, p, rarity_weight)

\* the returns of the packs of the dict, in insertion order
Returns(per_source, rarity_weight) ==
    [k \in 1..Len(per_source) |-> expected_return(per_source, per_source[k].pack, rarity_weight)]

\* mutation: of the highest values the last one is taken
LastMax(val) ==
    CHOOSE k \in 1..Len(val) :
        /\ \A j \in 1..Len(val) : ~FLess(val[k], val[j])
        /\ \A j \in (k + 1)..Len(val) : FLess(val[j], val[k])

\* max(..., key=...): the first position, in insertion order, whose value
\* no other exceeds
FirstMax(val) ==
    CHOOSE k \in 1..Len(val) :
        /\ \A j \in 1..Len(val) : ~FLess(val[k], val[j])
        /\ \A j \in 1..(k - 1) : FLess(val[j], val[k])

\* max(cards_per_source, key=expected_return)
MaxSource(per_source, rarity_weight) ==
    per_source[FirstMax(Returns(per_source, rarity_weight))].pack

(***************************************************************************)
(* The pack draw engine, Pack.pull_ten (mdgachasim/pack.py, not among the  *)
(* sources), from its contract: a ten-draw returns the catalog cards it    *)
(* landed on, in order, each with its dismantle value, the new pity        *)
(* counter, and the base materials of the draws that landed on cards the   *)
(* catalog does not hold.                                                  *)
(***************************************************************************)
\* the dismantle value of a drawn card: a plain copy or a copy with a finish
Finishes == {10, 30}

\* what the draws on cards outside the catalog pay out in one ten-draw
BaseUnit == 10

\* draws from one pack without a Super or Ultra card before one is certain
PityLimit == 2

\* the draws of a ten-draw
DrawCount == 10

\* the draws of a ten-draw from a secret pack that are certain to be its own
OwnDraws == 4

\* mutation: every pack draws from the master pool too
PoolWide(source) == cardlist(source) \cup cardlist(Master)

\* a normal pack other than the master pack yields its own cards only; the
\* master pack and the free slots of a secret pack draw from the master pool
Pool(source) ==
    IF source = Master THEN cardlist(Master)
    ELSE IF is_normal_pack(source) THEN cardlist(source)
    ELSE cardlist(source) \cup cardlist(Master)

IsHigh(c) == rarity(c) \in {"Super", "Ultra"}

\* the counter goes back to 0 with a Super or Ultra card and otherwise
\* grows by the number of lower cards drawn
NewPity(pity, cards) ==
    IF \E k \in 1..Len(cards) : IsHigh(cards[k]) THEN 0 ELSE pity + Len(cards)

OneHot(r, v) == [q \in Rarity |-> IF q = r THEN v ELSE 0]

\* the results a ten-draw from `source` at counter `pity` may return, at
\* most `tracked` of its draws landing on catalog cards
PullResults(source, pity, tracked) ==
    LET seqs == UNION {[1..n -> Pool(source)] : n \in 0..tracked}
        ok(cards) ==
            /\ NewPity(pity, cards) <= PityLimit
            /\ Len(cards) <= DrawCount
            /\ is_normal_pack(source)
                   \/ Cardinality({k \in 1..Len(cards) : cards[k] \notin cardlist(source)})
                          <= DrawCount - OwnDraws
        fins == UNION {[1..n -> Finishes] : n \in 0..tracked}
    IN  {[cards |-> cf[1], finishes |-> cf[2],
          pity |-> NewPity(pity, cf[1]), materials |-> OneHot("Common", BaseUnit)] :
            cf \in {x \in seqs \X fins : Len(x[1]) = Len(x[2]) /\ ok(x[1])}}

pull_ten(source, pity) == PullResults(source, pity, MaxTracked)

(***************************************************************************)
(* One iteration of the loop of line 250.  `r` is the record of the local  *)
(* variables, `a` the arguments of the call.                               *)
(***************************************************************************)
\* must_buy_bundles.pop() returns the last element
PoppedBundle(r) == r.must_buy_bundles[Len(r.must_buy_bundles)]

\* mutation: the skip test looks at the sub-goal list too
SkipsBundleEither(bundle, r) ==
    ~\E k \in 1..Len(bundle.featured_cards) :
        bundle.featured_cards[k] \in Range(r.goals) \cup Range(r.sub_goals)

\* line 256: the test that skips a popped bundle
SkipsBundle(bundle, r) ==
    ~\E k \in 1..Len(bundle.featured_cards) : bundle.featured_cards[k] \in Range(r.goals)

\* mutation: a pack that is not normal is drawn from without being unlocked
NeedsUnlockNever(source, r) == FALSE

\* line 294
NeedsUnlock(source, r) == ~is_normal_pack(source) /\ source \notin r.packs_unlocked

\* mutation: packs are pulled from before bundles are bought
KindPacksFirst(r, a) ==
    IF r.cards_per_source # <<>>
    THEN IF NeedsUnlock(MaxSource(r.cards_per_source, a.rarity_weight), r)
         THEN "unlock" ELSE "pull"
    ELSE IF r.must_buy_bundles = <<>> THEN "fallback"
    ELSE IF SkipsBundle(PoppedBundle(r), r) THEN "skip" ELSE "buy"

\* the branch an iteration takes
Kind(r, a) ==
    IF r.must_buy_bundles # <<>>
    THEN IF SkipsBundle(PoppedBundle(r), r) THEN "skip" ELSE "buy"
    ELSE IF r.cards_per_source = <<>> THEN "fallback"
    ELSE IF NeedsUnlock(MaxSource(r.cards_per_source, a.rarity_weight), r)
         THEN "unlock" ELSE "pull"

\* mutation: the loop goes on when range(50) is used up
FinishLate(r, broke) ==
    [r EXCEPT !.i = @ + 1,
              !.pc = IF broke THEN "done" ELSE "loop",
              !.exit = IF broke THEN "break" ELSE "none"]

\* the end of an iteration: by break, by the end of range(50), or on to the
\* next iteration
Finish(r, broke) ==
    [r EXCEPT !.i = @ + 1,
              !.pc = IF broke \/ r.i + 1 = Iterations THEN "done" ELSE "loop",
              !.exit = IF broke THEN "break"
                       ELSE IF r.i + 1 = Iterations THEN "cap" ELSE "none"]

\* lines 253-262: the popped bundle is skipped
SkipBundle(r) ==
    Finish([r EXCEPT !.must_buy_bundles = SubSeq(@, 1, Len(@) - 1)], FALSE)

\* mutation: a featured card found in the goal list is dismantled as well
TakeFeaturedAndDust(r, featured) ==
    IF Removes(featured, r.goals)
    THEN [r EXCEPT !.goals = GoalsWithout(featured, r.goals),
                   !.cards_per_source = SourcesWithout(featured, r.goals, @),
                   !.materials[rarity(featured)] = @ + BundleDismantle]
    ELSE IF Removes(featured, r.sub_goals)
    THEN [r EXCEPT !.sub_goals = GoalsWithout(featured, r.sub_goals)]
    ELSE [r EXCEPT !.materials[rarity(featured)] = @ + BundleDismantle]

\* lines 265-274, for one featured card
TakeFeatured(r, featured) ==
    IF Removes(featured, r.goals)
    THEN [r EXCEPT !.goals = GoalsWithout(featured, r.goals),
                   !.cards_per_source = SourcesWithout(featured, r.goals, @)]
    ELSE IF Removes(featured, r.sub_goals)
    THEN [r EXCEPT !.sub_goals = GoalsWithout(featured, r.sub_goals)]
    ELSE [r EXCEPT !.materials[rarity(featured)] = @ + BundleDismantle]

RECURSIVE TakeAll(_, _)
TakeAll(r, featured_cards) ==
    IF featured_cards = <<>> THEN r
    ELSE TakeAll(TakeFeatured(r, Head(featured_cards)), Tail(featured_cards))

\* mutation: the bundle's cost is not charged
BuyBundleUncharged(r) ==
    LET bundle == PoppedBundle(r)
        popped == [r EXCEPT !.must_buy_bundles = SubSeq(@, 1, Len(@) - 1)]
    IN  TakeAll(popped, bundle.featured_cards)

\* lines 253-276: the popped bundle is bought
BuyBundle(r) ==
    LET bundle == PoppedBundle(r)
        popped == [r EXCEPT !.must_buy_bundles = SubSeq(@, 1, Len(@) - 1)]
    IN  [TakeAll(popped, bundle.featured_cards) EXCEPT !.cost = @ + bundle.cost]

\* mutation: an Ultra goal of the pack is crafted before a Super one
CraftForUltraFirst(cards) ==
    LET first(q) == CHOOSE k \in 1..Len(cards) :
                        /\ rarity(cards[k]) = q
                        /\ \A j \in 1..(k - 1) : rarity(cards[j]) # q
        has(q) == \E k \in 1..Len(cards) : rarity(cards[k]) = q
    IN  IF has("Ultra") THEN <<cards[first("Ultra")]>>
        ELSE IF has("Super") THEN <<cards[first("Super")]>>
        ELSE <<>>

\* lines 296-318: the goal crafted to unlock `source`, a Super before an
\* Ultra, each the first of its rarity in the pack's list; <<>> if none
CraftFor(cards) ==
    LET first(q) == CHOOSE k \in 1..Len(cards) :
                        /\ rarity(cards[k]) = q
                        /\ \A j \in 1..(k - 1) : rarity(cards[j]) # q
        has(q) == \E k \in 1..Len(cards) : rarity(cards[k]) = q
    IN  IF has("Super") THEN <<cards[first("Super")]>>
        ELSE IF has("Ultra") THEN <<cards[first("Ultra")]>>
        ELSE <<>>

\* mutation: the completion check is made after an unlock craft too
UnlockCraftChecked(r, a) ==
    LET source == MaxSource(r.cards_per_source, a.rarity_weight)
        craft == CraftFor(Item(r.cards_per_source, source).cards)
        crafted ==
            IF craft # <<>>
            THEN [r EXCEPT !.goals = GoalsWithout(craft[1], r.goals),
                           !.cards_per_source = SourcesWithout(craft[1], r.goals, @),
                           !.materials[rarity(craft[1])] = @ - CraftCost]
            ELSE [r EXCEPT !.materials["Super"] = @ - GenericCraftCost]
        unlocked == [crafted EXCEPT !.packs_unlocked = @ \cup {source}]
        left(q) == Cardinality({k \in 1..Len(unlocked.goals) : rarity(unlocked.goals[k]) = q})
        covered == \A q \in Rarity : unlocked.materials[q] - CraftCost * left(q) >= 0
    IN  Finish(unlocked, covered /\ ~(a.no_crafting /\ unlocked.goals # <<>>))

\* lines 294-334: the pack is unlocked by a craft, nothing is drawn
UnlockCraft(r, a) ==
    LET source == MaxSource(r.cards_per_source, a.rarity_weight)
        craft == CraftFor(Item(r.cards_per_source, source).cards)
        crafted ==
            IF craft # <<>>
            THEN [r EXCEPT !.goals = GoalsWithout(craft[1], r.goals),
                           !.cards_per_source = SourcesWithout(craft[1], r.goals, @),
                           !.materials[rarity(craft[1])] = @ - CraftCost]
            ELSE [r EXCEPT !.materials["Super"] = @ - GenericCraftCost]
    IN  Finish([crafted EXCEPT !.packs_unlocked = @ \cup {source}], FALSE)

\* mutation: the draw that comes with a bundle is made from the Master Pack
DrawSourceBundleMaster(r, a) ==
    IF Kind(r, a) \in {"buy", "fallback"} THEN Master
    ELSE MaxSource(r.cards_per_source, a.rarity_weight)

\* mutation: a paid pull is always made from the Master Pack
DrawSourceMaster(r, a) ==
    IF Kind(r, a) = "buy" THEN PoppedBundle(r).featured_pack ELSE Master

\* the pack an iteration draws from (lines 275, 283, 292)
DrawSource(r, a) ==
    CASE Kind(r, a) = "buy" -> PoppedBundle(r).featured_pack
      [] Kind(r, a) = "fallback" -> Master
      [] OTHER -> MaxSource(r.cards_per_source, a.rarity_weight)

\* mutation: a ten-draw from the chosen pack is not charged
BeforeDrawFree(r, a) ==
    CASE Kind(r, a) = "buy" -> BuyBundle(r)
      [] Kind(r, a) = "fallback" -> [r EXCEPT !.cost = @ + PullCost]
      [] OTHER -> r

\* mutation: the pull price is charged in the iteration of a bundle too
BeforeDrawCharged(r, a) ==
    IF Kind(r, a) = "buy" THEN [BuyBundle(r) EXCEPT !.cost = @ + PullCost]
    ELSE [r EXCEPT !.cost = @ + PullCost]

\* the local state at line 339 of an iteration that draws
BeforeDraw(r, a) ==
    IF Kind(r, a) = "buy" THEN BuyBundle(r) ELSE [r EXCEPT !.cost = @ + PullCost]

\* mutation: with a logger a drawn card unlocks nothing
UnlocksUnlessLogged(card, r, a) ==
    IF ~IsHigh(card) \/ a.log THEN {} ELSE sources(card)

\* mutation: a drawn card of any rarity unlocks its packs
UnlocksAnyRarity(card, r, a) ==
    IF a.log
    THEN {p \in sources(card) : p \notin r.packs_unlocked /\ p \in Keys(r.cards_per_source)}
    ELSE sources(card)

\* lines 345-362: the packs a drawn card unlocks
Unlocks(card, r, a) ==
    IF ~IsHigh(card) THEN {}
    ELSE IF a.log
    THEN {p \in sources(card) : p \notin r.packs_unlocked /\ p \in Keys(r.cards_per_source)}
    ELSE sources(card)

\* mutation: a drawn goal or sub-goal is credited to the ledger as well
TakeDrawnAndDust(rp, card, finish, a) ==
    LET r == [rp.r EXCEPT !.packs_unlocked = @ \cup Unlocks(card, rp.r, a)]
        pm == [rp.pm EXCEPT ![rarity(card)] = @ + finish]
    IN  IF Removes(card, r.goals)
        THEN [r |-> [r EXCEPT !.goals = GoalsWithout(card, r.goals),
                              !.cards_per_source = SourcesWithout(card, r.goals, @)],
              pm |-> pm]
        ELSE IF Removes(card, r.sub_goals)
        THEN [r |-> [r EXCEPT !.sub_goals = GoalsWithout(card, r.sub_goals)],
              pm |-> pm]
        ELSE [r |-> r, pm |-> pm]

\* lines 343-371, for one drawn card; pm is pull.materials
TakeDrawn(rp, card, finish, a) ==
    LET r == [rp.r EXCEPT !.packs_unlocked = @ \cup Unlocks(card, rp.r, a)]
    IN  IF Removes(card, r.goals)
        THEN [r |-> [r EXCEPT !.goals = GoalsWithout(card, r.goals),
                              !.cards_per_source = SourcesWithout(card, r.goals, @)],
              pm |-> rp.pm]
        ELSE IF Removes(card, r.sub_goals)
        THEN [r |-> [r EXCEPT !.sub_goals = GoalsWithout(card, r.sub_goals)],
              pm |-> rp.pm]
        ELSE [r |-> r, pm |-> [rp.pm EXCEPT ![rarity(card)] = @ + finish]]

RECURSIVE TakeDraws(_, _, _, _)
TakeDraws(rp, pull, k, a) ==
    IF k > Len(pull.cards) THEN rp
    ELSE TakeDraws(TakeDrawn(rp, pull.cards[k], pull.finishes[k], a), pull, k + 1, a)

\* mutation: the completion check leaves the Ultra entry out
CraftableButUltra(goals, materials) ==
    \A q \in Rarity \ {"Ultra"} :
        materials[q] - CraftCost * Cardinality({k \in 1..Len(goals) : rarity(goals[k]) = q}) >= 0

\* mutation: the completion check wants every entry positive
CraftableStrict(goals, materials) ==
    \A q \in Rarity :
        materials[q] - CraftCost * Cardinality({k \in 1..Len(goals) : rarity(goals[k]) = q}) > 0

\* lines 379-383: the projected ledger has no negative entry
Craftable(goals, materials) ==
    \A q \in Rarity :
        materials[q] - CraftCost * Cardinality({k \in 1..Len(goals) : rarity(goals[k]) = q}) >= 0

\* mutation: the loop is left only while goals remain to be crafted
BreaksWithGoals(r, a) ==
    Craftable(r.goals, r.materials) /\ r.goals # <<>> /\ ~a.no_crafting

\* mutation: the no_crafting flag is not looked at
BreaksCraftable(r, a) == Craftable(r.goals, r.materials)

\* lines 383-388: the loop is left by break
Breaks(r, a) ==
    Craftable(r.goals, r.materials) /\ ~(a.no_crafting /\ r.goals # <<>>)

\* mutation: storing the counter of one pack forgets those of the others
StorePityAlone(r, source, pull) ==
    [r EXCEPT !.per_pack_pity = [p \in {source} |-> pull.pity]]

\* line 340: the counter the ten-draw returned is stored for its pack
StorePity(r, source, pull) ==
    [r EXCEPT !.per_pack_pity =
                  [p \in DOMAIN @ \cup {source} |-> IF p = source THEN pull.pity ELSE @[p]]]

\* mutation: the completion check takes its 30 per remaining goal from the
\* ledger itself
CreditDeducted(rp, a) ==
    LET credited == [rp.r EXCEPT !.materials = [q \in Rarity |-> @[q] + rp.pm[q]]]
        left(q) == Cardinality({k \in 1..Len(credited.goals) : rarity(credited.goals[k]) = q})
    IN  Finish([credited EXCEPT !.materials = [q \in Rarity |-> @[q] - CraftCost * left(q)]],
               Breaks(credited, a))

\* lines 373-388: pull.materials is credited and the completion check made
Credit(rp, a) ==
    LET credited == [rp.r EXCEPT !.materials = [q \in Rarity |-> @[q] + rp.pm[q]]]
    IN  Finish(credited, Breaks(credited, a))

\* lines 339-388
AfterDraw(r, source, pull, a) ==
    Credit(TakeDraws([r |-> StorePity(r, source, pull), pm |-> pull.materials], pull, 1, a), a)

\* per_pack_pity.get(source, 0)
PityOf(r, source) == IF source \in DOMAIN r.per_pack_pity THEN r.per_pack_pity[source] ELSE 0

\* the results the draw of this iteration may have
Draws(r, a) == pull_ten(DrawSource(r, a), PityOf(r, DrawSource(r, a)))

\* one whole iteration; pull is the result of its ten-draw, if it draws
Iterate(r, a, pull) ==
    CASE Kind(r, a) = "skip" -> SkipBundle(r)
      [] Kind(r, a) = "unlock" -> UnlockCraft(r, a)
      [] OTHER -> AfterDraw(BeforeDraw(r, a), DrawSource(r, a), pull, a)

(***************************************************************************)
(* The calls the model ranges over.                                        *)
(***************************************************************************)
NoMap == [q \in {} |-> 0]

\* a call with every optional argument left out
Defaults(goals) ==
    [goals |-> goals, sub_goals |-> <<>>, materials |-> NoMap, packs_unlocked |-> {},
     bundles |-> <<>>, core_only |-> FALSE, rarity_weight |-> NoMap,
     gifts_given |-> FALSE, gifts |-> <<>>, staples_given |-> FALSE, staples |-> {},
     log |-> FALSE, no_crafting |-> FALSE]

\* the optional arguments that differ from their default
Given(a) == {f \in DOMAIN a \ {"goals", "gifts", "staples"} : a[f] # Defaults(a.goals)[f]}

GoalLists == UNION {[1..n -> CoreCards] : n \in 0..MaxGoals}

\* the optional arguments given together in one call: the caller's ledger
\* and unlocked packs, a bundle plan with sub-goals or without crafting,
\* the staples of a core-only run
Together ==
    {{"materials", "packs_unlocked"}, {"bundles", "sub_goals"},
     {"bundles", "no_crafting"}, {"core_only", "staples_given"}}

CoreCalls ==
    {a \in [goals : GoalLists,
            sub_goals : {<<>>, <<"Gaz">>},
            materials : {NoMap, [q \in {"Super"} |-> 30]},
            packs_unlocked : {{}, {"N"}, {"S"}},
            bundles : {<<>>, <<BDuo>>, <<BAcc, BDuo>>},
            core_only : BOOLEAN,
            rarity_weight : {NoMap, [q \in {"Ultra"} |-> 0]},
            gifts_given : BOOLEAN,
            gifts : {<<>>, <<"Acc">>, <<"Acc", "Acc">>},
            staples_given : BOOLEAN,
            staples : {{}, {"Acc"}},
            log : BOOLEAN,
            no_crafting : BOOLEAN] :
        /\ Cardinality(Given(a)) <= MaxOptions
        /\ Cardinality(Given(a)) = MaxOptions => Given(a) \in Together
        /\ ~a.gifts_given => a.gifts = <<>>
        /\ a.staples_given <=> a.staples # {}}

\* the wide goal lists: one card from each of NumFiller secret packs, or of
\* all but the last of them, alone or after one core card
WideCalls ==
    {Defaults(pre \o SubSeq(FillerNames, 1, n)) :
        pre \in {<<>>, <<"Acc">>}, n \in {NumFiller - 1, NumFiller}}

\* three goals for two bundles: the draw that comes with one bundle may
\* land on the goal the other bundle features while a goal remains
SkipCalls ==
    {[Defaults(g) EXCEPT !.bundles = <<BAcc, BDuo>>, !.no_crafting = n, !.sub_goals = s] :
        g \in {<<"Acc", "Gaz", "Cir">>, <<"Acc", "Gaz", "Gaz">>},
        n \in BOOLEAN, s \in {<<>>, <<"Acc">>}}

\* three copies of an Ultra of pack S beside one Super of a filler pack: the
\* two packs have the same expected return when it is computed exactly
TieCalls ==
    {Defaults(g) : g \in {<<"F01", "Acc", "Acc", "Acc">>, <<"Acc", "Acc", "Acc", "F01">>}}

Calls == CoreCalls \cup WideCalls \cup SkipCalls \cup TieCalls

\* the orders in which the set db.sources[c] may be walked
SetOrders == {<<"S", "S2", "N">>, <<"N", "S2", "S">>}

(***************************************************************************)
(* The state.  args are the arguments as given; caller holds what the      *)
(* caller's list, dict and set objects contain now; the next variables are *)
(* the local variables of simulation(), i counts the iterations that are   *)
(* over, pc is "loop" or, after the return, "done", and exit tells how the *)
(* loop was left.  bought, paid and free_hits record the run so far: the   *)
(* bundles bought, the number of ten-draws paid with PullCost, and the     *)
(* goal copies obtained from the ten-draws that came with a bundle; last   *)
(* records the iteration that has just ended: its branch, the bundle it    *)
(* popped and the pack it drew from or unlocked.  peer                     *)
(* is a second call of simulation() that runs beside the first one in the  *)
(* specification PairSpec.  draw is the ten-draw being worked off in the   *)
(* specification DrawSpec, which follows the loop of line 343 card by      *)
(* card.                                                                   *)
(***************************************************************************)
VARIABLES args, caller, goals, sub_goals, materials, packs_unlocked,
          cards_per_source, per_pack_pity, must_buy_bundles, cost, i, pc, exit,
          bought, paid, free_hits, last, peer, draw

vars == <<args, caller, goals, sub_goals, materials, packs_unlocked,
          cards_per_source, per_pack_pity, must_buy_bundles, cost, i, pc, exit,
          bought, paid, free_hits, last, peer, draw>>

\* the local variables as one record
cur ==
    [goals |-> goals, sub_goals |-> sub_goals, materials |-> materials,
     packs_unlocked |-> packs_unlocked, cards_per_source |-> cards_per_source,
     per_pack_pity |-> per_pack_pity, must_buy_bundles |-> must_buy_bundles,
     cost |-> cost, i |-> i, pc |-> pc, exit |-> exit]

\* mutation: the goal list is not copied
CopiedButGoals == {"sub_goals", "materials", "packs_unlocked"}

\* the arguments simulation() copies before it changes them (lines 171,
\* 172, 175 and 208)
Copied == {"goals", "sub_goals", "materials", "packs_unlocked"}

\* what the caller's objects hold when the locals are r.  An argument that
\* is not copied is the very object the local name is bound to (an empty
\* or None argument is replaced by a fresh object by `or`); bundles and
\* gifts are only read, the must-buy list is a new list (line 210)
CallerSees(a, r) ==
    [f \in {"goals", "sub_goals", "materials", "packs_unlocked", "bundles", "gifts"} |->
        IF f \in {"bundles", "gifts"} THEN a[f]
        ELSE IF f \in Copied \/ (f # "goals" /\ a[f] = Defaults(a.goals)[f]) THEN a[f]
        ELSE r[f]]

\* the locals become r
Becomes(r) ==
    /\ goals' = r.goals
    /\ sub_goals' = r.sub_goals
    /\ materials' = r.materials
    /\ packs_unlocked' = r.packs_unlocked
    /\ cards_per_source' = r.cards_per_source
    /\ per_pack_pity' = r.per_pack_pity
    /\ must_buy_bundles' = r.must_buy_bundles
    /\ cost' = r.cost
    /\ i' = r.i
    /\ pc' = r.pc
    /\ exit' = r.exit
    /\ caller' = CallerSees(args, r)

\* the value in the place of a ten-draw in an iteration that draws nothing
NoPull == [cards |-> <<>>, finishes |-> <<>>, pity |-> 0, materials |-> OneHot("Common", 0)]

\* the record of the run is brought up to date for an iteration of kind k
\* that took the locals from cur to r with the ten-draw `pull`
Recorded(k, r, pull) ==
    /\ bought' = IF k = "buy" THEN Append(bought, PoppedBundle(cur).name) ELSE bought
    /\ paid' = IF k \in {"fallback", "pull"} THEN paid + 1 ELSE paid
    /\ free_hits' = IF k = "buy"
                    THEN free_hits + Len(BuyBundle(cur).goals) - Len(r.goals)
                    ELSE free_hits
    /\ last' = [kind |-> k,
                bundle |-> IF k \in {"buy", "skip"} THEN PoppedBundle(cur).name ELSE "none",
                source |-> CASE k = "skip" -> "none"
                             [] k = "unlock" -> MaxSource(cur.cards_per_source, args.rarity_weight)
                             [] OTHER -> DrawSource(cur, args)]

\* no iteration has ended yet
NoStep == [kind |-> "none", bundle |-> "none", source |-> "none"]

\* nothing has come into the ledger or gone out of it yet
NoTally ==
    [base |-> OneHot("Common", 0), dust |-> OneHot("Common", 0),
     featured |-> OneHot("Common", 0), crafted |-> OneHot("Common", 0), generic |-> 0]

\* no ten-draw has been made yet
NoDraw ==
    [at |-> "idle", kind |-> "none", source |-> "none", passed |-> 0, pull |-> NoPull,
     k |-> 1, pm |-> NoPull.materials, goals |-> <<>>, sub_goals |-> <<>>,
     returned |-> NoMap, landed |-> 0, tally |-> NoTally]

\* the call a with its set-up done
Started(a, order) ==
    LET r == Setup(a, order)
    IN  /\ args = a
        /\ caller = CallerSees(a, r)
        /\ goals = r.goals
        /\ sub_goals = r.sub_goals
        /\ materials = r.materials
        /\ packs_unlocked = r.packs_unlocked
        /\ cards_per_source = r.cards_per_source
        /\ per_pack_pity = r.per_pack_pity
        /\ must_buy_bundles = r.must_buy_bundles
        /\ cost = r.cost
        /\ i = r.i
        /\ pc = r.pc
        /\ exit = r.exit
        /\ bought = <<>>
        /\ paid = 0
        /\ free_hits = 0
        /\ last = NoStep
        /\ draw = NoDraw

\* no second call
NoPeer == [args |-> Defaults(<<>>), r |-> Setup(Defaults(<<>>), <<"S", "S2", "N">>)]

Init == \E a \in Calls : \E order \in SetOrders : Started(a, order) /\ peer = NoPeer

\* a ten-draw is explored while the ledger stays within MaxMat
Within(r) == \A q \in Rarity : r.materials[q] <= MaxMat

\* the results of the ten-draw of the next iteration of the locals r
PullsOf(r, a) == IF Kind(r, a) \in {"skip", "unlock"} THEN {NoPull} ELSE Draws(r, a)

\* an iteration of kind k that draws
Drawn(k) ==
    \E pull \in Draws(cur, args) :
        LET r == Iterate(cur, args, pull)
        IN  Within(r) /\ Becomes(r) /\ Recorded(k, r, pull)

\* an iteration of kind k that ends in `continue` before any draw
Quiet(k) ==
    LET r == Iterate(cur, args, NoPull)
    IN  Becomes(r) /\ Recorded(k, r, NoPull)

\* lines 251-278 and 339-388: a bundle is bought and its pack drawn from
BuyBundleStep ==
    /\ pc = "loop"
    /\ Kind(cur, args) = "buy"
    /\ Drawn("buy")
    /\ UNCHANGED <<args, peer, draw>>

\* lines 251-262: a bundle is popped and skipped
SkipBundleStep ==
    /\ pc = "loop"
    /\ Kind(cur, args) = "skip"
    /\ Quiet("skip")
    /\ UNCHANGED <<args, peer, draw>>

\* lines 279-286 and 339-388: a ten-draw from the master pack
FallbackStep ==
    /\ pc = "loop"
    /\ Kind(cur, args) = "fallback"
    /\ Drawn("fallback")
    /\ UNCHANGED <<args, peer, draw>>

\* lines 287-334: the chosen pack is unlocked by a craft
UnlockStep ==
    /\ pc = "loop"
    /\ Kind(cur, args) = "unlock"
    /\ Quiet("unlock")
    /\ UNCHANGED <<args, peer, draw>>

\* lines 287-292, 336-388: a ten-draw from the chosen pack
PullStep ==
    /\ pc = "loop"
    /\ Kind(cur, args) = "pull"
    /\ Drawn("pull")
    /\ UNCHANGED <<args, peer, draw>>

Next == BuyBundleStep \/ SkipBundleStep \/ FallbackStep \/ UnlockStep \/ PullStep

Spec == Init /\ [][Next]_vars

(***************************************************************************)
(* Two calls side by side.  The second call, peer, has the arguments of    *)
(* the first but for one change, and the two run iteration by iteration.   *)
(* The ten-draws the two make in the same iteration are resolved the same  *)
(* way: they land on the same cards with the same finishes whenever the    *)
(* pack and the pity counter of the second call allow that outcome, as     *)
(* they do when both draw from the same pack at the same counter.          *)
(***************************************************************************)
\* the list G with k copies of the card X put in after its first pos entries
WithCopies(G, pos, X, k) ==
    SubSeq(G, 1, pos) \o [n \in 1..k |-> X] \o SubSeq(G, pos + 1, Len(G))

\* the call a with a card its goal list lacks added, in front or at the
\* end, no more often than the card is gifted
GiftVariants(a) ==
    UNION {{[a EXCEPT !.goals = WithCopies(a.goals, pos, X, k)] :
                pos \in {0, Len(a.goals)}, k \in 1..Gifted(X, a)} :
              X \in CoreCards \ Range(a.goals)}

\* a call of at most MaxPairSize optional arguments and goals together
Small(a) == Cardinality(Given(a)) + Len(a.goals) <= MaxPairSize

\* the calls compared with a: the same call with a logger and, when a is
\* small, the same call with core_only set and the same call with gifted
\* copies added
Variants(a) ==
    ({[a EXCEPT !.log = TRUE]}
        \cup (IF Small(a) THEN {[a EXCEPT !.core_only = TRUE]} \cup GiftVariants(a) ELSE {}))
     \ {a}

\* the calls compared: those with at most MaxPairOptions optional arguments
\* and at most MaxPairGoals goals
PairCalls ==
    {a \in CoreCalls : /\ ~a.core_only
                       /\ Cardinality(Given(a)) <= MaxPairOptions
                       /\ Len(a.goals) <= MaxPairGoals}

PairInit ==
    \E a \in PairCalls : \E b \in Variants(a) : \E order \in SetOrders :
        /\ Started(a, order)
        /\ peer = [args |-> b, r |-> Setup(b, order)]

\* the outcome `other` of the second call's ten-draw goes with the outcome
\* `pull` of the first call's
SameDraw(pull, other, others) ==
    LET same(o) == o.cards = pull.cards /\ o.finishes = pull.finishes
    IN  (\E o \in others : same(o)) => same(other)

\* the first call makes one iteration with the ten-draw `pull`
MainIterates(pull) ==
    LET r == Iterate(cur, args, pull)
    IN  Within(r) /\ Becomes(r) /\ Recorded(Kind(cur, args), r, pull)

\* the second call makes one iteration with the ten-draw `pull`
PeerIterates(pull) ==
    LET r == Iterate(peer.r, peer.args, pull)
    IN  Within(r) /\ peer' = [peer EXCEPT !.r = r]

\* both calls are in the loop and make their next iteration
BothStep ==
    /\ pc = "loop"
    /\ peer.r.pc = "loop"
    /\ LET others == PullsOf(peer.r, peer.args)
       IN  \E pull \in PullsOf(cur, args) :
              /\ MainIterates(pull)
              /\ \E other \in {o \in others : SameDraw(pull, o, others)} :
                     PeerIterates(other)
    /\ UNCHANGED <<args, draw>>

\* the second call has returned, the first makes its next iteration
MainStep ==
    /\ pc = "loop"
    /\ peer.r.pc = "done"
    /\ \E pull \in PullsOf(cur, args) : MainIterates(pull)
    /\ UNCHANGED <<args, peer, draw>>

\* the first call has returned, the second makes its next iteration
PeerStep ==
    /\ pc = "done"
    /\ peer.r.pc = "loop"
    /\ \E pull \in PullsOf(peer.r, peer.args) : PeerIterates(pull)
    /\ UNCHANGED <<args, caller, goals, sub_goals, materials, packs_unlocked,
                   cards_per_source, per_pack_pity, must_buy_bundles, cost, i, pc,
                   exit, bought, paid, free_hits, last, draw>>

PairNext == BothStep \/ MainStep \/ PeerStep

PairSpec == PairInit /\ [][PairNext]_vars

(***************************************************************************)
(* One ten-draw card by card.  DrawSpec makes the iterations Spec makes,   *)
(* but an iteration that draws is made in steps: the draw itself (lines    *)
(* 251-342), then one step for each drawn card (one pass of the loop of    *)
(* line 343), then the crediting of the materials and the completion check *)
(* (lines 373-388).  draw.at tells whether a ten-draw is being worked off, *)
(* draw.kind, draw.source and draw.passed are the branch of the iteration, *)
(* the pack drawn from and the pity counter passed to pull_ten, draw.pull  *)
(* is the result, draw.k the place of the next card to work off, draw.pm   *)
(* what pull.materials holds by now, draw.goals and draw.sub_goals the two *)
(* lists as they were when the ten-draw was made, draw.returned the       *)
(* counter the latest ten-draw from each pack has returned, draw.landed   *)
(* the number of catalog cards the ten-draws of the run have landed on.   *)
(* draw.tally counts what has come into the ledger and gone out of it:     *)
(* base and dust are the base materials of the ten-draws made and the      *)
(* finish values of the drawn cards that were dismantled, featured the     *)
(* featured cards of bought bundles that were dismantled, crafted the      *)
(* goals crafted to unlock a pack (all four by rarity), generic the        *)
(* unlock crafts made without a goal.                                      *)
(* A ten-draw lands on up to DrawTracked catalog cards here, those of one  *)
(* run on up to DrawLanded.  The record of the run (bought, paid,          *)
(* free_hits, last) is not kept by these steps.                            *)
(***************************************************************************)
DrawTracked == 2

\* the catalog cards the ten-draws of one run land on in all, at most
DrawLanded == 3

\* the calls followed card by card
DrawCalls ==
    {[Defaults(g) EXCEPT !.sub_goals = s, !.log = l, !.bundles = b, !.materials = m] :
        g \in {<<"Gaz", "Gaz">>, <<"Acc", "Cir">>},
        s \in {<<>>, <<"Gaz">>}, l \in BOOLEAN, b \in {<<>>, <<BDuo>>},
        m \in {NoMap, [q \in {"Super"} |-> 30]}}

\* the featured cards of rarity q of the list f that are in neither list
\* when their turn comes in the purchase (lines 263-274): the copies of the
\* same card that come earlier in f have used up the copies in the lists
Dismantled(f, gs, ss, q) ==
    Cardinality({k \in 1..Len(f) :
                    /\ rarity(f[k]) = q
                    /\ Cardinality({j \in 1..(k - 1) : f[j] = f[k]})
                           >= Count(gs, f[k]) + Count(ss, f[k])})

\* the rarity of the goal an unlock craft for a pack with the list `cards`
\* takes (lines 296-318), "none" for the craft without a goal (line 323)
CraftedRarity(cards) ==
    IF \E k \in 1..Len(cards) : rarity(cards[k]) = "Super" THEN "Super"
    ELSE IF \E k \in 1..Len(cards) : rarity(cards[k]) = "Ultra" THEN "Ultra"
    ELSE "none"

\* the tally after the purchase, if any, and the ten-draw `pull`
TallyDraw(pull) ==
    [draw.tally EXCEPT
        !.base = [q \in Rarity |-> @[q] + pull.materials[q]],
        !.featured = [q \in Rarity |->
                         IF must_buy_bundles = <<>> THEN @[q]
                         ELSE @[q] + Dismantled(PoppedBundle(cur).featured_cards,
                                                goals, sub_goals, q)]]

\* the tally after the drawn `card` with the finish value `finish`
TallyCard(card, finish) ==
    IF card \in Range(goals) \/ card \in Range(sub_goals) THEN draw.tally
    ELSE [draw.tally EXCEPT !.dust[rarity(card)] = @ + finish]

\* the tally after an iteration that draws nothing
TallyQuiet ==
    IF must_buy_bundles # <<>> THEN draw.tally
    ELSE LET q == CraftedRarity(
                      Item(cards_per_source,
                           MaxSource(cards_per_source, args.rarity_weight)).cards)
         IN  IF q = "none" THEN [draw.tally EXCEPT !.generic = @ + 1]
             ELSE [draw.tally EXCEPT !.crafted[q] = @ + 1]

DrawInit ==
    \E a \in DrawCalls : \E order \in SetOrders : Started(a, order) /\ peer = NoPeer

\* lines 251-342 of an iteration that draws: the bundle is bought or the
\* pull price charged, the ten-draw is made and its counter stored
BeginDraw ==
    /\ pc = "loop"
    /\ draw.at = "idle"
    /\ Kind(cur, args) \in {"buy", "fallback", "pull"}
    /\ \E pull \in PullResults(DrawSource(cur, args), PityOf(cur, DrawSource(cur, args)),
                               Min(DrawTracked, DrawLanded - draw.landed)) :
          /\ Becomes(StorePity(BeforeDraw(cur, args), DrawSource(cur, args), pull))
          /\ draw' = [at |-> "cards", kind |-> Kind(cur, args),
                      source |-> DrawSource(cur, args),
                      passed |-> PityOf(cur, DrawSource(cur, args)),
                      pull |-> pull, k |-> 1, pm |-> pull.materials,
                      landed |-> draw.landed + Len(pull.cards),
                      tally |-> TallyDraw(pull),
                      goals |-> BeforeDraw(cur, args).goals,
                      sub_goals |-> BeforeDraw(cur, args).sub_goals,
                      returned |-> [p \in DOMAIN draw.returned \cup {DrawSource(cur, args)} |->
                                       IF p = DrawSource(cur, args) THEN pull.pity
                                       ELSE draw.returned[p]]]
    /\ UNCHANGED <<args, peer, bought, paid, free_hits, last>>

\* lines 343-371: the next drawn card is worked off
CardStep ==
    /\ pc = "loop"
    /\ draw.at = "cards"
    /\ draw.k <= Len(draw.pull.cards)
    /\ LET rp == TakeDrawn([r |-> cur, pm |-> draw.pm], draw.pull.cards[draw.k],
                           draw.pull.finishes[draw.k], args)
       IN  /\ Becomes(rp.r)
           /\ draw' = [draw EXCEPT !.k = @ + 1, !.pm = rp.pm,
                                   !.tally = TallyCard(draw.pull.cards[draw.k],
                                                       draw.pull.finishes[draw.k])]
    /\ UNCHANGED <<args, peer, bought, paid, free_hits, last>>

\* lines 373-388: the materials are credited, the completion check is made
EndDraw ==
    /\ pc = "loop"
    /\ draw.at = "cards"
    /\ draw.k > Len(draw.pull.cards)
    /\ LET r == Credit([r |-> cur, pm |-> draw.pm], args)
       IN  Within(r) /\ Becomes(r)
    /\ draw' = [draw EXCEPT !.at = "idle"]
    /\ UNCHANGED <<args, peer, bought, paid, free_hits, last>>

\* an iteration that ends in `continue` before any draw (lines 262, 334)
QuietStep ==
    /\ pc = "loop"
    /\ draw.at = "idle"
    /\ Kind(cur, args) \in {"skip", "unlock"}
    /\ Becomes(Iterate(cur, args, NoPull))
    /\ draw' = [draw EXCEPT !.kind = Kind(cur, args), !.tally = TallyQuiet]
    /\ UNCHANGED <<args, peer, bought, paid, free_hits, last>>

DrawNext == BeginDraw \/ CardStep \/ EndDraw \/ QuietStep

DrawSpec == DrawInit /\ [][DrawNext]_vars

(***************************************************************************)
(* Properties.                                                             *)
(***************************************************************************)
\* the ledger covers the list: no entry is negative once 30 materials of
\* its rarity are taken for every card of the list
Covers(ledger, unobtained) ==
    \A q \in Rarity :
        ledger[q] - 30 * Cardinality({k \in 1..Len(unobtained) : rarity(unobtained[k]) = q}) >= 0

\* the sum of the costs of the bundles of the list `names`
RECURSIVE BundleCosts(_)
BundleCosts(names) ==
    IF names = <<>> THEN 0
    ELSE (CHOOSE b \in Bundles : b.name = Head(names)).cost + BundleCosts(Tail(names))

\* C1, as stated: in every run, however the loop ended, the returned ledger
\* covers the returned list of unobtained goals.
C1_CoversAlways == pc = "done" => Covers(materials, goals)

\* C1: in every run that leaves the loop through the completion check, the
\* returned ledger covers the returned list of unobtained goals: for every
\* rarity, the entry less 30 per unobtained goal of that rarity is not
\* negative.
C1_CoversAfterBreak == (pc = "done" /\ exit = "break") => Covers(materials, goals)

\* C1: a run has left the loop through the completion check with goals
\* that are left to be crafted
C1_Witness == pc = "done" /\ exit = "break" /\ goals # <<>>

\* the call is simulation([X], bundles={B}) with B featuring X
OneGoalOneBundle ==
    /\ Len(args.goals) = 1
    /\ Len(args.bundles) = 1
    /\ args.goals[1] \in Range(args.bundles[1].featured_cards)
    /\ Given(args) = {"bundles"}

\* C2, as stated: for a single goal X and the only bundle B, featuring X,
\* the returned cost is B.cost.
C2_BundleCostAlways ==
    (pc = "done" /\ OneGoalOneBundle) => cost = args.bundles[1].cost

\* C2: for a single goal X that is not gifted (X.gift = 0) and the only
\* bundle B, featuring X, the returned cost is B.cost whatever is drawn.
C2_BundleCost ==
    (pc = "done" /\ OneGoalOneBundle /\ gift(args.goals[1]) = 0)
        => cost = args.bundles[1].cost

\* C2: such a run has returned after buying the bundle
C2_Witness ==
    /\ pc = "done"
    /\ OneGoalOneBundle
    /\ gift(args.goals[1]) = 0
    /\ bought = <<args.bundles[1].name>>

\* the returned triple: a cost, a ledger over all rarities, a list of goals
Returned ==
    /\ cost \in Nat
    /\ DOMAIN materials = Rarity /\ \A q \in Rarity : materials[q] \in Int
    /\ goals \in Seq(Cards)

\* C3: the loop makes at most 50 iterations, hence at most 50 ten-draws:
\* every step is one iteration more, the count never passes 50, and when
\* the 50th iteration has ended the call has returned its triple, whether
\* or not the completion check held.
C3_Terminates ==
    /\ [](i <= Iterations /\ paid + Len(bought) <= i)
    /\ [](i = Iterations => pc = "done")
    /\ [](pc = "done" => Returned)
    /\ [][i' = i + 1]_vars

\* C3: the 50th iteration has ended without the completion check holding,
\* and the call has returned with goals left that the ledger does not cover
C3_Witness ==
    /\ pc = "done" /\ exit = "cap" /\ i = Iterations
    /\ goals # <<>> /\ ~Covers(materials, goals)

\* C4, as stated: a non-empty goal list costs more than 0, and at least
\* 1000 when no bundles are supplied.
C4_PositiveCost ==
    (pc = "done" /\ args.goals # <<>>)
        => (cost > 0 /\ (args.bundles = <<>> => cost >= 1000))

\* the second call is the first with core_only set
CoreOnlyPair == ~args.core_only /\ peer.args = [args EXCEPT !.core_only = TRUE]

\* C5, as stated: with the same arguments and the draws resolved the same
\* way, the call with core_only set returns no higher cost than the call
\* without.
C5_CoreOnlyNoDearer ==
    (CoreOnlyPair /\ pc = "done" /\ peer.r.pc = "done") => peer.r.cost <= cost

\* the second call is the first with gifted copies of one card added
GiftPair == peer.args \in GiftVariants(args)

\* C6: for a goal list G without the card X, the call with k copies of X
\* added to G, k no more than X is gifted (by X.gift or, when a gifts list
\* is given, by the copies of X in it), has the same local state after the
\* set-up as the call with G (goal list, cards_per_source and must-buy list
\* among it) and, the draws being the same, the same state ever after and
\* the same returned cost.
C6_GiftIdempotent == GiftPair => peer.r = cur

\* C6: both calls have returned, having paid, and the second had two gifted
\* copies more in its goal list
C6_Witness ==
    /\ GiftPair
    /\ Len(peer.args.goals) = Len(args.goals) + 2
    /\ pc = "done" /\ peer.r.pc = "done"
    /\ cost > 0

\* a bundle supplied features a card that the goal list holds twice
FeaturedTwice(goal_list) ==
    \E n \in 1..Len(args.bundles) : \E c \in Range(args.bundles[n].featured_cards) :
        Count(goal_list, c) >= 2

\* no bundle is bought twice
BoughtOnce == \A j, k \in 1..Len(bought) : j # k => bought[j] # bought[k]

Featuring(c) == {n \in 1..Len(args.bundles) : c \in Range(args.bundles[n].featured_cards)}

\* the goal list is one copy each of cards that are featured by exactly one
\* bundle each, no bundle featuring two of them; crafting is disabled
OneBundleEach ==
    /\ Given(args) = {"bundles", "no_crafting"}
    /\ args.goals # <<>>
    /\ \A c \in Range(args.goals) : Count(args.goals, c) = 1 /\ Cardinality(Featuring(c)) = 1
    /\ \A c, d \in Range(args.goals) : c # d => Featuring(c) # Featuring(d)

\* the sum of the costs of the bundles that feature a goal
RECURSIVE CostOfAll(_)
CostOfAll(ns) ==
    IF ns = {} THEN 0
    ELSE LET n == CHOOSE m \in ns : TRUE
         IN  args.bundles[n].cost + CostOfAll(ns \ {n})

NeededCost == CostOfAll(UNION {Featuring(c) : c \in Range(args.goals)})

NothingToGet ==
    /\ SetupGoals(args) = <<>>
    /\ args.bundles = <<>>
    /\ args.materials = NoMap

\* C9: when no goal is left after the set-up (every copy is gifted or the
\* goal list is empty), no bundles are supplied and the ledger starts at
\* its default, the run costs at most 1000: it returns after one ten-draw
\* from the master pack with cost 1000 and no unobtained goal.
C9_OnePull ==
    NothingToGet =>
        /\ cost <= PullCost
        /\ i >= 1 => pc = "done"
        /\ pc = "done" => (cost = PullCost /\ goals = <<>> /\ exit = "break" /\ Returned)

\* C9: a call whose only goals were gifted has returned
C9_Witness == NothingToGet /\ args.goals # <<>> /\ pc = "done"

\* C10: the caller's goals list, sub_goals list, materials mapping,
\* packs_unlocked set, bundles and gifts hold after every iteration, and so
\* at the return, what they held at the call; the arguments never change.
C10_ArgumentsUntouched ==
    /\ [](\A f \in DOMAIN caller : caller[f] = args[f])
    /\ [][args' = args]_vars

\* C10: a call given a ledger and unlocked packs has returned with its own
\* goal list, ledger and unlocked packs changed
C10_Witness ==
    /\ pc = "done"
    /\ args.materials # NoMap /\ args.packs_unlocked # {}
    /\ goals # args.goals
    /\ materials # Ledger(args.materials)
    /\ packs_unlocked # args.packs_unlocked

\* the pity counters the tests pass to pull_ten (range(10))
PityCounters == 0..9

\* the normal packs other than the master pack
OwnPacks == {p \in Packs \ {Master} : is_normal_pack(p)}

FiledUnder(g) ==
    {p \in Keys(cards_per_source) : g \in Range(Item(cards_per_source, p).cards)}

\* C12, as stated: after the set-up a remaining goal is filed under the
\* normal packs of its sources and under those of its other packs that are
\* in packs_unlocked.
C12_FiledNormalOrUnlocked ==
    i = 0 =>
        \A g \in Range(goals) :
            FiledUnder(g) =
                {p \in sources(g) : is_normal_pack(p) \/ p \in args.packs_unlocked}

\* C12: after the set-up a remaining goal is filed under the non-normal
\* (secret or selection) packs of its sources, locked or not, and under
\* those of its normal packs that are in packs_unlocked; a normal pack
\* that is not in packs_unlocked is not filed.
C12_FiledSecretOrUnlocked ==
    i = 0 =>
        \A g \in Range(goals) :
            FiledUnder(g) =
                {p \in sources(g) : ~is_normal_pack(p) \/ p \in args.packs_unlocked}

\* C12: the set-up has filed a goal under a locked secret pack and has not
\* filed it under a normal pack that is not in packs_unlocked
C12_Witness ==
    /\ i = 0
    /\ \E g \in Range(goals) :
          /\ \E p \in FiledUnder(g) : ~is_normal_pack(p) /\ p \notin args.packs_unlocked
          /\ \E p \in sources(g) \ FiledUnder(g) : is_normal_pack(p)

\* the iteration that starts in this state makes a ten-draw
DrawsNext == pc = "loop" /\ Kind(cur, args) \in {"buy", "fallback", "pull"}

\* C13, as stated: when the goal list becomes empty in an iteration that
\* draws or buys a bundle, the call returns at once, whatever the ledger.
C13_EmptyGoalsStop ==
    [][(DrawsNext /\ goals # <<>> /\ goals' = <<>>) => pc' = "done"]_vars

\* C13: when the goal list becomes empty in an iteration that draws or buys
\* a bundle and no entry of the ledger is negative after it, the call
\* returns at once through the completion check; when an entry is negative
\* (an unlock craft is not yet paid for) the loop goes on, unless the 50
\* iterations are used up.  Nothing is charged or drawn after the return.
C13_EmptyGoalsStopIfPaid ==
    /\ [][(DrawsNext /\ goals # <<>> /\ goals' = <<>>) =>
             IF \A q \in Rarity : materials'[q] >= 0
             THEN pc' = "done" /\ exit' = "break"
             ELSE exit' # "break" /\ (pc' = "loop" \/ i' = Iterations)]_vars
    /\ [][pc = "loop"]_vars

\* C13: the last goal came from the ten-draw of a paid pull or of a bundle,
\* and the call has returned
C13_Witness ==
    /\ pc = "done" /\ exit = "break"
    /\ last.kind \in {"buy", "pull"}
    /\ goals = <<>>
    /\ i >= 2

\* the completion check holds in this state
CheckHolds == Covers(materials, goals) /\ ~(args.no_crafting /\ goals # <<>>)

\* C14, as stated: when the ledger covers the remaining goals right after an
\* unlock craft (and no_crafting does not apply) the run stops there.
C14_StopsAfterUnlock == (last.kind = "unlock" /\ CheckHolds) => pc = "done"

\* C14: the completion check is evaluated after every ten-draw and only
\* there.  An iteration that draws leaves the loop by the check exactly when
\* the projected ledger is non-negative for every rarity after it (and
\* no_crafting does not apply); an iteration that unlocks a pack by a craft
\* charges nothing and ends without the check, so the loop goes on to the
\* next iteration, whatever the ledger, unless the 50 are used up.
C14_CheckAfterDrawOnly ==
    /\ [][DrawsNext => (((pc' = "done" /\ exit' = "break") <=> CheckHolds')
                        /\ (exit' = "break" <=> CheckHolds'))]_vars
    /\ [][(pc = "loop" /\ Kind(cur, args) = "unlock") =>
             /\ exit' # "break"
             /\ pc' = "loop" \/ i' = Iterations
             /\ cost' = cost]_vars

\* C14: an unlock craft has just left a ledger that covers the remaining
\* goals, and the loop goes on
C14_Witness ==
    /\ last.kind = "unlock" /\ CheckHolds
    /\ pc = "loop" /\ i < Iterations

\* C15: with no_crafting the loop is never left by the completion check
\* while goals remain, so a run that was not ended by the 50-iteration cap
\* returns an empty list of unobtained goals; without no_crafting the loop
\* is left after the first ten-draw that leaves no rarity of the projected
\* ledger negative, and after no other.
C15_NoCraftingKeepsPulling ==
    /\ [](args.no_crafting /\ exit = "break" => goals = <<>>)
    /\ [][(args.no_crafting /\ DrawsNext /\ goals' # <<>>) =>
             exit' # "break" /\ (pc' = "loop" \/ i' = Iterations)]_vars
    /\ [][(~args.no_crafting /\ DrawsNext) =>
             (Covers(materials', goals') <=> pc' = "done" /\ exit' = "break")]_vars
    /\ [][(~args.no_crafting /\ DrawsNext /\ pc' = "loop") =>
             ~Covers(materials', goals')]_vars

\* C15: with no_crafting, a ten-draw has left a ledger that covers the goals
\* that remain, and the loop goes on
C15_Witness ==
    /\ args.no_crafting /\ last.kind \in {"buy", "fallback", "pull"}
    /\ goals # <<>> /\ Covers(materials, goals)
    /\ pc = "loop"

\* C16: while the must-buy list is non-empty an iteration pops exactly one
\* bundle (the last of the list) and either skips or buys it: it makes no
\* 1000-gem pull, charges nothing but that bundle's cost, and crafts nothing
\* (no entry of the ledger goes down); hence every paid pull and every
\* unlock craft of a run comes after the must-buy list is used up.
C16_BundlesFirst ==
    /\ [][must_buy_bundles # <<>> =>
             /\ must_buy_bundles' = SubSeq(must_buy_bundles, 1, Len(must_buy_bundles) - 1)
             /\ paid' = paid
             /\ last'.kind \in {"buy", "skip"}
             /\ cost' - cost \in {0, PoppedBundle(cur).cost}
             /\ \A q \in Rarity : materials'[q] >= materials[q]]_vars
    /\ []((paid > 0 \/ last.kind \in {"unlock", "pull", "fallback"}) => must_buy_bundles = <<>>)

\* C16: a bundle has been popped while a pack holds a goal, and another
\* bundle is still to be popped before that pack is pulled from
C16_Witness ==
    /\ last.kind \in {"buy", "skip"}
    /\ must_buy_bundles # <<>>
    /\ cards_per_source # <<>>

\* none of the featured cards of the bundle about to be popped is in `cards`
NoFeaturedIn(cards) ==
    \A k \in 1..Len(PoppedBundle(cur).featured_cards) :
        PoppedBundle(cur).featured_cards[k] \notin cards

\* the step charges nothing, draws nothing and leaves lists and ledger alone
Skipped ==
    /\ cost' = cost
    /\ UNCHANGED <<goals, sub_goals, materials, per_pack_pity, cards_per_source>>

\* C17, as stated: a popped bundle is skipped exactly when none of its
\* featured cards is in the goal list or in the sub-goal list.
C17_SkipIfInNeitherList ==
    [][must_buy_bundles # <<>> =>
          (Skipped <=> NoFeaturedIn(Range(goals) \cup Range(sub_goals)))]_vars

\* C17: a popped bundle is skipped (no charge, no draw, lists and ledger
\* unchanged) exactly when none of its featured cards is in the goal list;
\* the sub-goal list is not looked at.  Otherwise the bundle is bought at
\* its cost.
C17_SkipIfNotInGoals ==
    [][must_buy_bundles # <<>> =>
          /\ Skipped <=> NoFeaturedIn(Range(goals))
          /\ ~Skipped => cost' = cost + PoppedBundle(cur).cost]_vars

\* C17: a bundle has been skipped although one of its featured cards is
\* still in the sub-goal list
C17_Witness ==
    /\ last.kind = "skip"
    /\ \E b \in Bundles :
          /\ b.name = last.bundle
          /\ \E k \in 1..Len(b.featured_cards) : b.featured_cards[k] \in Range(sub_goals)

\* the one way the k-th featured card of a purchased bundle is disposed of,
\* given the goal and sub-goal lists at the purchase: the copies of the same
\* card that come earlier in the bundle have used up goal copies first, then
\* sub-goal copies
Way(featured_cards, k) ==
    LET c == featured_cards[k]
        earlier == Cardinality({j \in 1..(k - 1) : featured_cards[j] = c})
    IN  IF earlier < Count(goals, c) THEN "goal"
        ELSE IF earlier < Count(goals, c) + Count(sub_goals, c) THEN "sub_goal"
        ELSE "dismantle"

\* the number of featured cards equal to c that are disposed of by way w
Disposed(featured_cards, c, w) ==
    Cardinality({k \in 1..Len(featured_cards) :
                    featured_cards[k] = c /\ Way(featured_cards, k) = w})

\* C18: when a bundle is purchased each featured card is disposed of in
\* exactly one way: a copy leaves the goal list if there is one, else a
\* copy leaves the sub-goal list if there is one, else the ledger of the
\* card's rarity is credited with 10; nothing else changes in the lists or
\* the ledger before the draw, and the cost of the run rises by the cost of
\* the bundle.
C18_FeaturedDisposedOnce ==
    /\ [](pc = "loop" /\ Kind(cur, args) = "buy" =>
            LET f == PoppedBundle(cur).featured_cards
                after == BuyBundle(cur)
            IN  /\ \A c \in Cards :
                      /\ Count(after.goals, c) = Count(goals, c) - Disposed(f, c, "goal")
                      /\ Count(after.sub_goals, c) = Count(sub_goals, c) - Disposed(f, c, "sub_goal")
                /\ \A q \in Rarity :
                      after.materials[q] = materials[q] + 10 *
                          Cardinality({k \in 1..Len(f) : rarity(f[k]) = q /\ Way(f, k) = "dismantle"})
                /\ after.cost = cost + PoppedBundle(cur).cost)
    /\ [][(pc = "loop" /\ Kind(cur, args) = "buy") =>
             /\ cost' = cost + PoppedBundle(cur).cost
             /\ Len(goals') <= Len(BuyBundle(cur).goals)
             /\ Len(sub_goals') <= Len(BuyBundle(cur).sub_goals)]_vars

\* C18: the first iteration bought BDuo with Gaz in the sub-goal list only:
\* its copy left the sub-goal list
C18_Witness ==
    /\ i = 1 /\ last.kind = "buy" /\ last.bundle = "BDuo"
    /\ "Gaz" \in Range(args.sub_goals) /\ "Gaz" \notin Range(SetupGoals(args))
    /\ sub_goals = <<>>
    /\ cost = 500

\* the step is a forced fallback: no bundle is popped, 1000 gems are charged
\* and the ten-draw is made from the Master Pack
FallsBack ==
    /\ must_buy_bundles' = must_buy_bundles
    /\ cost' = cost + PullCost
    /\ last'.source = Master
    /\ Master \in DOMAIN per_pack_pity'

\* C19: an iteration is a forced fallback exactly when it starts with an
\* empty must-buy list and an empty cards_per_source; the Master Pack is
\* never a key of cards_per_source, and an iteration that starts with an
\* empty must-buy list and a pack in cards_per_source unlocks or draws from
\* one of those packs, never from the Master Pack.
C19_FallbackWhenNoSource ==
    /\ [][pc = "loop" =>
             (FallsBack <=> (must_buy_bundles = <<>> /\ cards_per_source = <<>>))]_vars
    /\ [][(pc = "loop" /\ must_buy_bundles = <<>> /\ cards_per_source # <<>>) =>
             /\ last'.source \in Keys(cards_per_source)
             /\ last'.source # Master]_vars
    /\ [](Master \notin Keys(cards_per_source))

\* C19: a fallback pull was made, after another paid pull, while goals
\* remain that no eligible pack holds
C19_Witness ==
    /\ last.kind = "fallback" /\ last.source = Master
    /\ goals # <<>> /\ cards_per_source = <<>>
    /\ paid >= 2

\* the base probabilities of the score, in units of 1/100000
BaseProb == [Ultra |-> 2500, Super |-> 7500, Rare |-> 350, Common |-> 55]

\* the score of pack p as the exact number the formula denotes, in units of
\* 1/4000000 (every total of the catalog divides 40): the sum over the goal
\* cards filed under p of base_prob * rarity_weight.get(rarity, 1) /
\* p.totals.get(rarity, 4)
ExactScore(p) ==
    LET cards == Item(cards_per_source, p).cards
        n(q) == Cardinality({k \in 1..Len(cards) : rarity(cards[k]) = q})
        term(q) == n(q) * BaseProb[q] * Weight(args.rarity_weight, q) * (40 \div Total(p, q))
    IN  term("Ultra") + term("Super") + term("Rare") + term("Common")

\* the score of pack p as the code computes it
FloatScore(p) == expected_return(cards_per_source, p, args.rarity_weight)

\* the place of pack p in the insertion order of cards_per_source
Place(p) == CHOOSE k \in 1..Len(cards_per_source) : cards_per_source[k].pack = p

\* the iteration that starts in this state selects a pack
Selects == pc = "loop" /\ Kind(cur, args) \in {"unlock", "pull"}

\* C20, as stated: the chosen pack has the highest score among the packs of
\* cards_per_source, and among the packs of that score it is the first in
\* insertion order, the scores being the numbers the formula denotes.
C20_MaxExactScoreFirst ==
    [][Selects =>
          /\ last'.source \in Keys(cards_per_source)
          /\ \A p \in Keys(cards_per_source) :
                /\ ExactScore(p) <= ExactScore(last'.source)
                /\ Place(p) < Place(last'.source) => ExactScore(p) < ExactScore(last'.source)]_vars

\* C20: the chosen pack has the highest score among the packs of
\* cards_per_source, both as the formula denotes it and as the code computes
\* it in double precision; among the packs whose computed scores are equal
\* it is the first in insertion order.  (Two packs with the same exact score
\* can have different computed scores.)
C20_MaxComputedScoreFirst ==
    [][Selects =>
          /\ last'.source \in Keys(cards_per_source)
          /\ \A p \in Keys(cards_per_source) :
                /\ ExactScore(p) <= ExactScore(last'.source)
                /\ ~FLess(FloatScore(last'.source), FloatScore(p))
                /\ Place(p) < Place(last'.source) =>
                       FLess(FloatScore(p), FloatScore(last'.source))]_vars

\* C20: with the goals F01, Acc, Acc, Acc the packs F01 and S were filed in
\* this order with the same exact score, and the first iteration has chosen
\* S, the second of them
C20_Witness ==
    /\ i = 1 /\ last.kind = "unlock" /\ last.source = "S"
    /\ args.goals = <<"F01", "Acc", "Acc", "Acc">>
    /\ "F01" \notin packs_unlocked

(***************************************************************************)
(* The unlock step, the unlocking by drawn cards, the use of a drawn card, *)
(* the pity counters, the per-pack goal lists, the staples, the bundle     *)
(* iteration, the cost and the logger.                                     *)
(***************************************************************************)
\* the pack the selection of line 292 picks in the current state
Selected == MaxSource(cards_per_source, args.rarity_weight)

\* the selection is reached (no bundle is left, some goal has a source) and
\* the pack it picks is not a normal pack and is not unlocked
SelectsLocked ==
    /\ pc = "loop"
    /\ must_buy_bundles = <<>>
    /\ cards_per_source # <<>>
    /\ ~is_normal_pack(Selected)
    /\ Selected \notin packs_unlocked

\* the goals of rarity q that are filed under the selected pack
FiledOf(q) == {c \in Range(Item(cards_per_source, Selected).cards) : rarity(c) = q}

\* the goal list loses exactly one copy of some card of `cs` in this step
LosesOneOf(cs) ==
    \E c \in cs : \A x \in Cards : Count(goals', x) = Count(goals, x) - (IF x = c THEN 1 ELSE 0)

\* the ledger changes in this step by `d` at rarity q and nowhere else
LedgerMoves(q, d) == materials' = [materials EXCEPT ![q] = @ + d]

\* C21: when the selected pack is not normal and not unlocked, the step is
\* an unlock step: with a Super goal filed under the pack one such goal
\* leaves the list and the Super ledger drops by 30; else with an Ultra goal
\* filed one such goal leaves and the Ultra ledger drops by 30; else the
\* goals stay and the Super ledger drops by 20.  Always the pack joins the
\* unlocked set, nothing is drawn (no sub-goal is used, no pull is paid),
\* the cost and the pity counters stay.
C21_UnlockStepPreference ==
    [][SelectsLocked =>
          /\ IF FiledOf("Super") # {}
             THEN LosesOneOf(FiledOf("Super")) /\ LedgerMoves("Super", -30)
             ELSE IF FiledOf("Ultra") # {}
             THEN LosesOneOf(FiledOf("Ultra")) /\ LedgerMoves("Ultra", -30)
             ELSE goals' = goals /\ LedgerMoves("Super", -20)
          /\ packs_unlocked' = packs_unlocked \cup {Selected}
          /\ cost' = cost
          /\ per_pack_pity' = per_pack_pity
          /\ sub_goals' = sub_goals
          /\ paid' = paid
          /\ last'.kind = "unlock" /\ last'.source = Selected]_vars

\* C21 happens: a run whose first two iterations are unlock steps, the first
\* crafting an Ultra goal, the second paying the generic 20 for a pack that
\* holds a Rare goal only
C21_Witness ==
    /\ i = 2
    /\ last.kind = "unlock"
    /\ args.materials = NoMap
    /\ materials["Ultra"] = -30
    /\ materials["Super"] = -20
    /\ Len(goals) = Len(args.goals) - 1
    /\ cost = 0

\* a ten-draw is under way and its next card is about to be taken
TakesCard == pc = "loop" /\ draw.at = "cards" /\ draw.k <= Len(draw.pull.cards)

\* the card that is taken next
DrawnCard == draw.pull.cards[draw.k]

\* every card of the ten-draw under way has been taken
CardsTaken == draw.at = "cards" /\ draw.k > Len(draw.pull.cards)

\* the Super and Ultra cards of the ten-draw under way taken so far
HighTaken == {draw.pull.cards[j] : j \in {n \in 1..(draw.k - 1) : IsHigh(draw.pull.cards[n])}}

\* C22, as stated: after every ten-draw of every run, every pack in the
\* sources of a drawn Super or Ultra card is unlocked; a drawn Common or
\* Rare card adds nothing to the unlocked set.
C22_DrawnHighUnlocksAll ==
    /\ [](CardsTaken => \A c \in HighTaken : sources(c) \subseteq packs_unlocked)
    /\ [][TakesCard /\ ~IsHigh(DrawnCard) => packs_unlocked' = packs_unlocked]_vars

\* C22, amended: a drawn Super or Ultra card adds every pack of its sources
\* in a run without a logger, and in a run with a logger those of its
\* sources that are keys of cards_per_source when the card is taken; a
\* drawn Common or Rare card adds nothing.  After the ten-draw the sources
\* of its Super and Ultra cards are unlocked, with a logger those that
\* still are keys of cards_per_source.
C22_DrawnHighUnlocks ==
    /\ [](CardsTaken =>
             \A c \in HighTaken : \A p \in sources(c) :
                 (args.log /\ p \notin Keys(cards_per_source)) \/ p \in packs_unlocked)
    /\ [][TakesCard =>
             packs_unlocked' =
                 packs_unlocked \cup
                     (IF ~IsHigh(DrawnCard) THEN {}
                      ELSE IF args.log
                      THEN sources(DrawnCard) \cap Keys(cards_per_source)
                      ELSE sources(DrawnCard))]_vars

\* C22 happens: the draw that came with a bundle, in a run with a logger,
\* held a Super or Ultra card of which
\* one source is a key of cards_per_source and was added and another is not
\* a key and stays locked, after a Rare card was drawn too
C22_Witness ==
    /\ CardsTaken
    /\ draw.kind = "buy"
    /\ args.log
    /\ args.packs_unlocked = {}
    /\ \E c \in HighTaken :
           /\ sources(c) \cap packs_unlocked # {}
           /\ sources(c) \ packs_unlocked # {}
    /\ \E j \in 1..Len(draw.pull.cards) : ~IsHigh(draw.pull.cards[j])

\* the list `new` is the list `old` less exactly one copy of card c
LessOne(new, old, c) ==
    \A x \in Cards : Count(new, x) = Count(old, x) - (IF x = c THEN 1 ELSE 0)

\* the copies of card x that left the list `now` since it was `before`
Left(before, now, x) == Count(before, x) - Count(now, x)

\* C23: a drawn card is used in exactly one way: as a goal (one copy
\* leaves the goal list), else as a sub-goal (one copy leaves the sub-goal
\* list), else it is dismantled (its finish value is added at its rarity to
\* the pull's materials, which are credited to the ledger after the last
\* card).  A card that served as goal or sub-goal is not credited, and a
\* ten-draw takes from the two lists no more copies of a card than it drew.
C23_DrawnCardUsedOnce ==
    /\ [][TakesCard =>
             /\ IF DrawnCard \in Range(goals)
                THEN /\ LessOne(goals', goals, DrawnCard)
                     /\ sub_goals' = sub_goals
                     /\ draw'.pm = draw.pm
                ELSE IF DrawnCard \in Range(sub_goals)
                THEN /\ goals' = goals
                     /\ LessOne(sub_goals', sub_goals, DrawnCard)
                     /\ draw'.pm = draw.pm
                ELSE /\ goals' = goals
                     /\ sub_goals' = sub_goals
                     /\ draw'.pm = [draw.pm EXCEPT ![rarity(DrawnCard)] =
                                                       @ + draw.pull.finishes[draw.k]]
             /\ materials' = materials
             /\ draw'.k = draw.k + 1]_vars
    /\ [][CardsTaken =>
             /\ materials' = [q \in Rarity |-> materials[q] + draw.pm[q]]
             /\ goals' = goals /\ sub_goals' = sub_goals]_vars
    /\ [](draw.at = "cards" =>
             \A x \in Cards :
                 /\ Left(draw.goals, goals, x) >= 0
                 /\ Left(draw.sub_goals, sub_goals, x) >= 0
                 /\ Left(draw.goals, goals, x) + Left(draw.sub_goals, sub_goals, x)
                        <= Count(SubSeq(draw.pull.cards, 1, draw.k - 1), x))

\* C23 happens: a ten-draw held the same card twice; the first copy was
\* taken as the only goal copy of it, the second as a sub-goal
C23_Witness ==
    /\ CardsTaken
    /\ Len(draw.pull.cards) = 2
    /\ draw.pull.cards[1] = draw.pull.cards[2]
    /\ Left(draw.goals, goals, draw.pull.cards[1]) = 1
    /\ Left(draw.sub_goals, sub_goals, draw.pull.cards[1]) = 1
    /\ draw.pm = draw.pull.materials

\* this step makes a ten-draw
MakesDraw == draw.at = "idle" /\ draw'.at = "cards"

\* C24: the pity counters are kept per pack: a ten-draw from pack P is
\* given the counter the previous ten-draw from P returned in this run (0
\* if there was none), the returned counter is stored for P and the
\* counters of the other packs stay; nothing else changes a counter, and
\* no counter exists before the first ten-draw of the run.
C24_PityPerPack ==
    /\ [][MakesDraw =>
             /\ draw'.passed = IF draw'.source \in DOMAIN draw.returned
                               THEN draw.returned[draw'.source] ELSE 0
             /\ DOMAIN per_pack_pity' = DOMAIN per_pack_pity \cup {draw'.source}
             /\ per_pack_pity'[draw'.source] = draw'.pull.pity
             /\ \A p \in DOMAIN per_pack_pity \ {draw'.source} :
                    per_pack_pity'[p] = per_pack_pity[p]]_vars
    /\ [][~MakesDraw => per_pack_pity' = per_pack_pity]_vars
    /\ [](per_pack_pity = draw.returned)
    /\ [](i = 0 /\ draw.at = "idle" => per_pack_pity = NoMap)

\* C24 happens: a ten-draw was given a counter above 0, the one its pack
\* had returned before, while the counter of another pack is kept
C24_Witness ==
    /\ draw.at = "cards"
    /\ draw.passed > 0
    /\ \E p \in DOMAIN per_pack_pity : p # draw.source /\ per_pack_pity[p] > 0

\* the set-up files card x under pack p (line 82, with the unlocked set of
\* the call)
FiledAtSetup(x, p) ==
    p \in sources(x) /\ (~is_normal_pack(p) \/ p \in args.packs_unlocked)

\* C25: cards_per_source agrees with the goal list: the list of a pack
\* holds every card as often as the goal list holds it if the set-up files
\* the card under the pack, and not at all otherwise; no key has an empty
\* list, no pack is a key twice, and every pack under which a remaining
\* goal is filed is a key.
C25_SourcesFollowGoals ==
    /\ \A k \in 1..Len(cards_per_source) :
           /\ cards_per_source[k].cards # <<>>
           /\ Range(cards_per_source[k].cards) \subseteq Range(goals)
           /\ \A x \in Range(goals) :
                  Count(cards_per_source[k].cards, x) =
                      IF FiledAtSetup(x, cards_per_source[k].pack) THEN Count(goals, x) ELSE 0
           /\ \A j \in 1..(k - 1) : cards_per_source[j].pack # cards_per_source[k].pack
    /\ \A x \in Range(goals) : \A p \in sources(x) :
           FiledAtSetup(x, p) => p \in Keys(cards_per_source)

\* C25 happens: of two copies of a goal filed under two packs a ten-draw
\* has obtained one, and the loop goes on with the other copy in both lists
C25_Witness ==
    /\ pc = "loop"
    /\ last.kind = "pull"
    /\ args.goals = <<"Gaz", "Gaz">>
    /\ goals = <<"Gaz">>
    /\ Keys(cards_per_source) = {"S", "N"}

\* the goal list at i = 0 is the list left by the gifts without the copies
\* of the cards that satisfy `drops`, and every planned bundle features a
\* card of it
StartsWithout(drops(_)) ==
    i = 0 =>
        /\ \A x \in Range(args.goals) \cup Range(goals) :
               Count(goals, x) = IF args.core_only /\ drops(x) THEN 0
                                 ELSE Count(RemoveGifts(args.goals, args), x)
        /\ \A n \in 1..Len(must_buy_bundles) :
               Range(must_buy_bundles[n].featured_cards) \cap Range(goals) # {}

TopBundle == must_buy_bundles[Len(must_buy_bundles)]

\* the next iteration pops a bundle and buys it (lines 251-256)
BuysBundle ==
    /\ pc = "loop"
    /\ draw.at = "idle"
    /\ must_buy_bundles # <<>>
    /\ Range(TopBundle.featured_cards) \cap Range(goals) # {}

\* C27: an iteration that buys a bundle makes one ten-draw from the
\* bundle's featured pack, whether that pack is unlocked or not: the draw
\* is given the pack's pity counter and its counter is stored for the pack,
\* the cost rises by the bundle's cost and not by the pull price, and the
\* unlocked set is not changed by the purchase.  The drawn cards are then
\* taken one by one and the materials credited like those of any ten-draw,
\* without a second draw or a further charge, and the iteration ends with
\* the completion check.
C27_BundleDraw ==
    /\ [][BuysBundle =>
             /\ MakesDraw
             /\ draw'.kind = "buy"
             /\ draw'.source = TopBundle.featured_pack
             /\ draw'.passed = IF TopBundle.featured_pack \in DOMAIN per_pack_pity
                               THEN per_pack_pity[TopBundle.featured_pack] ELSE 0
             /\ per_pack_pity'[TopBundle.featured_pack] = draw'.pull.pity
             /\ cost' = cost + TopBundle.cost
             /\ packs_unlocked' = packs_unlocked
             /\ must_buy_bundles' = SubSeq(must_buy_bundles, 1, Len(must_buy_bundles) - 1)
             /\ i' = i]_vars
    /\ [][draw.at = "cards" /\ draw.kind = "buy" =>
             /\ draw'.pull = draw.pull /\ draw'.source = draw.source
             /\ cost' = cost
             /\ per_pack_pity' = per_pack_pity
             /\ must_buy_bundles' = must_buy_bundles
             /\ IF TakesCard
                THEN draw'.at = "cards" /\ draw'.k = draw.k + 1 /\ i' = i /\ pc' = "loop"
                ELSE /\ draw'.at = "idle" /\ i' = i + 1
                     /\ materials' = [q \in Rarity |-> materials[q] + draw.pm[q]]
                     /\ pc' = IF CheckHolds' \/ i' = Iterations THEN "done" ELSE "loop"]_vars

\* C27 happens: the bundle BDuo was bought for 500 gems and the ten-draw
\* that came with it was made from its pack S, which is still locked after
\* the cards of the draw have been taken
C27_Witness ==
    /\ CardsTaken
    /\ draw.kind = "buy"
    /\ draw.source = "S"
    /\ "S" \notin packs_unlocked
    /\ draw.pull.cards # <<>>
    /\ cost = 500
    /\ i = 0

\* the next iteration pops a bundle and skips it (lines 251-262)
SkipsTop ==
    /\ pc = "loop"
    /\ must_buy_bundles # <<>>
    /\ Range(TopBundle.featured_cards) \cap Range(goals) = {}

\* C28: at every point of a run the cost is 1000 times the number of
\* ten-draws made by the fallback and by the pack selection, plus the costs
\* of the bundles bought; an iteration that skips a bundle and one that
\* unlocks a pack by a craft leave the cost as it is, and the cost never
\* goes down.
C28_CostAccounting ==
    /\ [](cost = 1000 * paid + BundleCosts(bought))
    /\ [][SkipsTop \/ SelectsLocked => cost' = cost]_vars
    /\ [][cost' >= cost]_vars

\* C28 happens: a run of three iterations of which one has bought BDuo, one
\* has unlocked a pack by a craft and one has paid a pull
C28_Witness ==
    /\ i = 3
    /\ bought = <<"BDuo">>
    /\ paid = 1
    /\ cost = 1500
    /\ last.kind = "pull"

\* this step is a paid pull from a pack chosen by the selection
PullsSelected == pc = "loop" /\ last'.kind = "pull"

\* this step is an unlock craft
CraftsUnlock == pc = "loop" /\ last'.kind = "unlock"

\* C29: a paid pull from a chosen pack that is not normal is made while the
\* pack is in the unlocked set; the unlocked set never loses a member; an
\* unlock craft is made for a pack that is not in the set and puts it there,
\* so no pack is unlocked by a craft twice.  A pack enters the set by an
\* unlock craft for it or by a ten-draw, and then it is a source of a Super
\* or Ultra card.
C29_UnlockBeforePull ==
    /\ [][PullsSelected /\ ~is_normal_pack(last'.source) =>
             last'.source \in packs_unlocked]_vars
    /\ [][packs_unlocked \subseteq packs_unlocked']_vars
    /\ [][CraftsUnlock =>
             /\ last'.source \notin packs_unlocked
             /\ packs_unlocked' = packs_unlocked \cup {last'.source}]_vars
    /\ [][~CraftsUnlock =>
             /\ packs_unlocked' # packs_unlocked =>
                    last'.kind \in {"buy", "fallback", "pull"}
             /\ \A p \in packs_unlocked' \ packs_unlocked :
                    \E c \in Cards : IsHigh(c) /\ p \in sources(c)]_vars

\* C29 happens: a paid pull was made from a pack that is not normal and was
\* locked when the run began, after an unlock craft for it
C29_Witness ==
    /\ last.kind = "pull"
    /\ ~is_normal_pack(last.source)
    /\ last.source \notin args.packs_unlocked
    /\ last.source \in packs_unlocked
    /\ i >= 2
    /\ \E q \in Rarity : materials[q] < 0

\* the second call is the first with a logger
LogPair == ~args.log /\ peer.args = [args EXCEPT !.log = TRUE]

\* C30: the logger does not change the result: with the same arguments and
\* the draws resolved the same way, the call with a logger and the call
\* without are in the loop or have returned together, and have the same
\* cost, the same ledger and the same goal list at every iteration and so
\* at the return; their unlocked sets agree on the packs that are keys of
\* cards_per_source, and may differ on the others.
C30_LoggerChangesNothing ==
    LogPair =>
        /\ peer.r.pc = pc
        /\ peer.r.cost = cost
        /\ peer.r.materials = materials
        /\ peer.r.goals = goals
        /\ peer.r.cards_per_source = cards_per_source
        /\ \A p \in Keys(cards_per_source) :
               p \in peer.r.packs_unlocked <=> p \in packs_unlocked

\* C30 happens: both calls have returned after a paid pull, and the call
\* without a logger has unlocked a pack the call with a logger has not
C30_Witness ==
    /\ LogPair
    /\ pc = "done"
    /\ peer.r.pc = "done"
    /\ paid >= 1
    /\ packs_unlocked \ peer.r.packs_unlocked # {}

\* what the ledger of rarity q had when the call was made
Starting(q) == IF q \in DOMAIN args.materials THEN args.materials[q] ELSE 0

\* what has come into the ledger of rarity q and gone out of it so far
Balance(q) ==
    Starting(q) + draw.tally.base[q] + draw.tally.dust[q] + 10 * draw.tally.featured[q]
        - 30 * draw.tally.crafted[q] - (IF q = "Super" THEN 20 * draw.tally.generic ELSE 0)

\* what the ten-draw under way holds for the ledger of rarity q
Pending(q) == IF draw.at = "cards" THEN draw.pm[q] ELSE 0

\* C31: the ledger is conserved: for every rarity the ledger is what the
\* call started with (0 if absent), plus the base materials of the
\* ten-draws, plus the finish values of the drawn cards that were neither a
\* goal nor a sub-goal when drawn, plus 10 for each featured card of a
\* bought bundle found in neither list, less 30 for each goal of the rarity
\* crafted to unlock a pack, less 20 of Super for each unlock craft made
\* without a goal.  It is so after every iteration, and so at the return
\* (the 30 per remaining goal of the completion check are not taken from
\* it); while a ten-draw is worked off, what the draw holds is still to
\* come.
C31_LedgerConserved ==
    \A q \in Rarity : materials[q] + Pending(q) = Balance(q)

\* C31 happens: a call that started with 30 Super has returned with a goal
\* left, after an unlock craft of a goal and a ten-draw of which a card was
\* dismantled, and its ledger still covers the goal that is left
C31_Witness ==
    /\ pc = "done"
    /\ exit = "break"
    /\ goals # <<>>
    /\ Starting("Super") = 30
    /\ \E q \in Rarity : draw.tally.crafted[q] > 0
    /\ \E q \in Rarity : draw.tally.dust[q] > 0
    /\ draw.tally.base["Common"] > 0
    /\ \A q \in Rarity :
           materials[q] >= 30 * Cardinality({k \in 1..Len(goals) : rarity(goals[k]) = q})
=============================================================================
